---------------------------- MODULE Spec2Model ----------------------------
(***************************************************************************)
(* State-machine model of the content-presentation engine of              *)
(* esp32-pixelcast (src/src/main.cpp): the app rotation table, the        *)
(* notification queue, the icon cache with its download blacklist, and    *)
(* the cooperative loop() that drives them.                               *)
(*                                                                         *)
(* Strings are sequences of one-character strings, so that strlcpy        *)
(* truncation, strcmp and the "lm_<digits>" test are computed as the code *)
(* computes them.  Times are milliseconds as returned by millis().        *)
(*                                                                         *)
(* Scope: the device is past setup() with wifiConnected = true (the       *)
(* guard at the head of loopApps and loopDisplay), no indicator is in a   *)
(* blink or fade mode, app items have a single zone, notifications are    *)
(* posted without icon, and the system item "weatherclock" renders        *)
(* without weather data, so that getIcon is reached only through          *)
(* displayShowApp of a custom item.                                        *)
(***************************************************************************)
EXTENDS Integers, Sequences, FiniteSets, TLC

VARIABLES
    now,                \* millis()
    pc,                 \* position inside loop(): "apps", "expiring", "display", "delay"
    apps,               \* AppItem apps[MAX_APPS]
    appCount,
    currentAppIndex,
    lastAppSwitch,
    appRotationEnabled,
    settings,           \* struct Settings (defaultDuration)
    appScrollState,
    lastScrollUpdate,
    lastNotifScrollUpdate,
    lastDisplayUpdate,
    notifications,      \* NotificationItem notifications[MAX_NOTIFICATIONS]
    notificationCount,
    currentNotifIndex,
    savedAppIndex,
    notifScrollState,
    iconCache,          \* CachedIcon iconCache[MAX_ICON_CACHE]
    failedIconDownloads,
    heap,               \* the pixel buffers malloc has handed out and free has not taken back
    iconFiles,          \* the files of the icon store (LittleFS, /icons)
    remoteIcons,        \* the icons the remote icon server can deliver
    layout,             \* text position chosen by the last single-zone app render,
                        \* and the zones drawn when the last app render was multi-zone
    rendered,           \* what the last render pass put on the panel
    lastOp,             \* history: the last operation and its outcome
    rotationLog,        \* history: slots made current since the active set last changed
    notifSeq,           \* history: number of notifications accepted so far
    notifMeta,          \* history: per queue slot, arrival number and "has been current"
    preemptedApp,       \* history: app index when notifications first preempted rotation
    fetchLog,           \* history: the failed remote fetches, oldest first
    iconOp,             \* history: the icon lookup of the last render, if any
    mgmtOps,            \* history: number of management requests served so far
    phaseSince,         \* history: per surface, when its present scroll phase was entered
    savedApps,          \* the "apps" array of /config/apps.json as saveApps last wrote it
    indicators,         \* IndicatorData indicators[NUM_INDICATORS]
    indicatorAnimState, \* IndicatorAnimState indicatorAnimState[NUM_INDICATORS]
    indicatorDrawn      \* what the last render pass put in the indicator corners

vars == << now, pc, apps, appCount, currentAppIndex, lastAppSwitch,
           appRotationEnabled, settings, appScrollState, lastScrollUpdate,
           lastNotifScrollUpdate, lastDisplayUpdate, notifications, notificationCount,
           currentNotifIndex, savedAppIndex, notifScrollState, iconCache,
           failedIconDownloads, heap, iconFiles, remoteIcons, layout, rendered, lastOp,
           rotationLog, notifSeq, notifMeta, preemptedApp, fetchLog, iconOp,
           mgmtOps, phaseSince, savedApps, indicators, indicatorAnimState,
           indicatorDrawn >>

appVars == << apps, appCount, currentAppIndex, lastAppSwitch,
              appRotationEnabled, settings, appScrollState, lastScrollUpdate >>

notifVars == << notifications, notificationCount, currentNotifIndex,
                savedAppIndex, notifScrollState >>

indicatorVars == << indicators, indicatorAnimState, indicatorDrawn >>

iconVars == << iconCache, failedIconDownloads, heap, iconFiles, remoteIcons,
              layout, fetchLog, iconOp >>

-----------------------------------------------------------------------------
(* Program constants *)

MAX_APPS == 16

MAX_NOTIFICATIONS == 10

MAX_ICON_CACHE == 8

MAX_FAILED_ICON_DOWNLOADS == 8

FAILED_ICON_RETRY_DELAY == 300000

DEFAULT_APP_DURATION == 10000

DISPLAY_WIDTH == 64

SCROLL_SPEED == 50

SCROLL_PAUSE == 2000

APP_ID_SIZE == 24

ICON_NAME_SIZE == 32

-----------------------------------------------------------------------------
(* C library helpers *)

Min(a, b) == IF a < b THEN a ELSE b

\* strlcpy(dst, src, size): dst receives at most size-1 characters of src
Strlcpy(src, size) == SubSeq(src, 1, Min(Len(src), size - 1))

\* unsigned long subtraction now - then.  Every time stamp of the model is a
\* past value of millis() and the clock is bounded far below 2^32, so the
\* 32-bit difference is the plain difference.
Elapsed(a, b) == a - b

Str(n, c) == [i \in 1..n |-> c]


-----------------------------------------------------------------------------
(* Identifiers and inputs of the management interface *)

WeatherClockId == <<"w","e","a","t","h","e","r","c","l","o","c","k">>

IdA == <<"a">>

IdB == <<"b">>

\* an identifier of APP_ID_SIZE characters: one more than the id field stores
LongId == Str(APP_ID_SIZE, "x")

\* 0xFFFFFF, the colour of a request without "color"
White == 16777215

ShortText == Str(5, "t")

\* the text of the system item: appAdd("weatherclock", "WeatherClock", "", ...)
WeatherClockText == <<"W", "e", "a", "t", "h", "e", "r", "C", "l", "o", "c", "k">>

LongText == Str(12, "t")

AppSlots == 0..(MAX_APPS - 1)

NotifSlots == 0..(MAX_NOTIFICATIONS - 1)

-----------------------------------------------------------------------------
(* Scroll state (struct ScrollState) *)

ZeroScrollState ==
    [scrollOffset |-> 0, lastScrollTime |-> 0, scrollPhase |-> 0,
     needsScroll |-> FALSE, textWidth |-> 0, availableWidth |-> 0]

ResetScrollState(t) ==
    [scrollOffset |-> 0, lastScrollTime |-> t, scrollPhase |-> 0,
     needsScroll |-> FALSE, textWidth |-> 0, availableWidth |-> DISPLAY_WIDTH - 4]

CalculateTextWidth(text) == Len(text) * 6

\* mutant of ScrollOnRender: a text that fits keeps the offset and the phase
ScrollOnRender_KeepOffset(s, textWidth, textAreaWidth) ==
    IF s.textWidth # textWidth \/ s.availableWidth # textAreaWidth
    THEN [s EXCEPT !.textWidth = textWidth,
                   !.availableWidth = textAreaWidth,
                   !.needsScroll = textWidth > textAreaWidth]
    ELSE s

\* the scroll-state update every text render performs
ScrollOnRender(s, textWidth, textAreaWidth) ==
    IF s.textWidth # textWidth \/ s.availableWidth # textAreaWidth
    THEN LET needs == textWidth > textAreaWidth IN
         [s EXCEPT !.textWidth = textWidth,
                   !.availableWidth = textAreaWidth,
                   !.needsScroll = needs,
                   !.scrollOffset = IF needs THEN @ ELSE 0,
                   !.scrollPhase = IF needs THEN @ ELSE 0]
    ELSE s

\* one pass of the scroll animation switch of loopDisplay
ScrollStep(s, t) ==
    CASE s.scrollPhase = 0 ->
           IF Elapsed(t, s.lastScrollTime) >= SCROLL_PAUSE
           THEN [s EXCEPT !.scrollPhase = 1, !.lastScrollTime = t]
           ELSE s
      [] s.scrollPhase = 1 ->
           IF s.scrollOffset + 1 >= s.textWidth - s.availableWidth + 10
           THEN [s EXCEPT !.scrollOffset = @ + 1, !.scrollPhase = 2,
                          !.lastScrollTime = t]
           ELSE [s EXCEPT !.scrollOffset = @ + 1]
      [] s.scrollPhase = 2 ->
           IF Elapsed(t, s.lastScrollTime) >= SCROLL_PAUSE
           THEN [s EXCEPT !.scrollOffset = 0, !.scrollPhase = 0,
                          !.lastScrollTime = t]
           ELSE s
      [] OTHER -> s

-----------------------------------------------------------------------------
(* Application table *)

MAX_ZONES == 4

\* an AppZone after memset(.., 0, ..)
EmptyZone == [text |-> << >>, icon |-> << >>, label |-> << >>, textColor |-> 0]

\* AppItem.zones[3] after memset(.., 0, ..)
EmptyZones == [i \in 1..(MAX_ZONES - 1) |-> EmptyZone]

EmptyApp ==
    [id |-> <<>>, text |-> <<>>, icon |-> <<>>, label |-> <<>>, textColor |-> 0,
     duration |-> 0, lifetime |-> 0, createdAt |-> 0, priority |-> 0, active |-> FALSE,
     isSystem |-> FALSE, textSegmentCount |-> 0, textSegments |-> << >>,
     zoneCount |-> 0, zones |-> EmptyZones]

FirstIn(S) == CHOOSE i \in S : \A j \in S : i <= j

\* appFind: lowest active slot whose stored id equals the given id, or -1
AppFindIn(tbl, id) ==
    LET hits == {i \in AppSlots : tbl[i].active /\ tbl[i].id = id} IN
    IF hits = {} THEN -1 ELSE FirstIn(hits)

AppFind(id) == AppFindIn(apps, id)

Constrain(x, lo, hi) == IF x < lo THEN lo ELSE IF x > hi THEN hi ELSE x

\* mutant of AppAddOn: an update normalises duration and priority as a
\* creation does
AppAddOn_Normalised(tbl, cnt, id, text, icon, textColor, duration, lifetime, priority, isSystem, defaultDuration, t) ==
    LET existingIndex == AppFindIn(tbl, id)
        free == {i \in AppSlots : ~tbl[i].active}
        slot == IF existingIndex >= 0 THEN existingIndex ELSE FirstIn(free)
    IN
    IF existingIndex < 0 /\ free = {}
    THEN [apps |-> tbl, appCount |-> cnt, result |-> -1]
    ELSE [apps |-> [tbl EXCEPT ![slot] =
                       [id |-> Strlcpy(id, APP_ID_SIZE),
                        text |-> Strlcpy(text, 64),
                        icon |-> Strlcpy(icon, ICON_NAME_SIZE),
                        label |-> << >>,
                        textColor |-> textColor,
                        textSegmentCount |-> 0,
                        textSegments |-> << >>,
                        zoneCount |-> 0,
                        zones |-> EmptyZones,
                        duration |-> IF duration > 0 THEN duration ELSE defaultDuration,
                        lifetime |-> lifetime,
                        createdAt |-> t,
                        priority |-> Constrain(priority, -10, 10),
                        active |-> TRUE,
                        isSystem |-> IF existingIndex >= 0 THEN tbl[slot].isSystem
                                     ELSE isSystem]],
          appCount |-> IF existingIndex >= 0 THEN cnt ELSE (cnt + 1) % 256,
          result |-> slot]

\* appAdd: [apps, appCount, result] after the call
AppAddOn(tbl, cnt, id, text, icon, textColor, duration, lifetime, priority, isSystem, defaultDuration, t) ==
    LET existingIndex == AppFindIn(tbl, id)
        free == {i \in AppSlots : ~tbl[i].active}
    IN
    IF existingIndex >= 0
    THEN [apps |-> [tbl EXCEPT ![existingIndex] =
                       [@ EXCEPT !.text = Strlcpy(text, 64),
                                 !.icon = Strlcpy(icon, ICON_NAME_SIZE),
                                 !.label = << >>,
                                 !.textColor = textColor,
                                 !.textSegmentCount = 0,
                                 !.textSegments = << >>,
                                 !.zoneCount = 0,
                                 !.zones = EmptyZones,
                                 !.duration = duration,
                                 !.lifetime = lifetime,
                                 !.priority = priority,
                                 !.createdAt = t,
                                 !.active = TRUE]],
          appCount |-> cnt,
          result |-> existingIndex]
    ELSE IF free = {}
    THEN [apps |-> tbl, appCount |-> cnt, result |-> -1]
    ELSE LET emptySlot == FirstIn(free) IN
         [apps |-> [tbl EXCEPT ![emptySlot] =
                       [id |-> Strlcpy(id, APP_ID_SIZE),
                        text |-> Strlcpy(text, 64),
                        icon |-> Strlcpy(icon, ICON_NAME_SIZE),
                        label |-> << >>,
                        textColor |-> textColor,
                        textSegmentCount |-> 0,
                        textSegments |-> << >>,
                        zoneCount |-> 0,
                        zones |-> EmptyZones,
                        duration |-> IF duration > 0 THEN duration ELSE defaultDuration,
                        lifetime |-> lifetime,
                        createdAt |-> t,
                        priority |-> Constrain(priority, -10, 10),
                        active |-> TRUE,
                        isSystem |-> isSystem]],
          appCount |-> (cnt + 1) % 256,
          result |-> emptySlot]

\* appCleanExpired: [apps, appCount, cur] after the sweep
AppExpired(tbl, i, t) ==
    /\ tbl[i].active
    /\ tbl[i].lifetime > 0
    /\ Elapsed(t, tbl[i].createdAt) > tbl[i].lifetime

AppCleanExpired(tbl, cnt, cur, t) ==
    LET gone == {i \in AppSlots : AppExpired(tbl, i, t)} IN
    [apps |-> [i \in AppSlots |->
                  IF i \in gone THEN [tbl[i] EXCEPT !.active = FALSE] ELSE tbl[i]],
     appCount |-> (cnt - Cardinality(gone)) % 256,
     cur |-> IF cur \in gone THEN -1 ELSE cur]

\* mutant of ScanFrom: the scan ignores the rotation pointer
ScanFrom_FromZero(tbl, startIndex) ==
    LET act == {i \in AppSlots : tbl[i].active} IN
    IF act = {} THEN -1 ELSE FirstIn(act)

\* mutant of ScanFrom: the active item of highest priority is taken
ScanFrom_ByPriority(tbl, startIndex) ==
    LET act == {i \in AppSlots : tbl[i].active}
        top == {i \in act : \A j \in act : tbl[i].priority >= tbl[j].priority}
    IN
    IF act = {} THEN -1 ELSE FirstIn(top)

\* the first active slot met scanning MAX_APPS slots from startIndex, or -1
ScanFrom(tbl, startIndex) ==
    LET offs == {k \in 0..(MAX_APPS - 1) : tbl[(startIndex + k) % MAX_APPS].active} IN
    IF offs = {} THEN -1 ELSE (startIndex + FirstIn(offs)) % MAX_APPS

\* appGetNext after the sweep c of appCleanExpired: the scan for the next item
AppGetNextScan(c, idx) ==
    IF idx >= 0
    THEN [apps |-> c.apps, appCount |-> c.appCount, cur |-> idx, found |-> TRUE]
    ELSE [apps |-> c.apps, appCount |-> c.appCount, cur |-> c.cur, found |-> FALSE]

AppGetNextSwept(c) ==
    IF c.appCount = 0
    THEN [apps |-> c.apps, appCount |-> c.appCount, cur |-> c.cur, found |-> FALSE]
    ELSE AppGetNextScan(c, ScanFrom(c.apps, (c.cur + 1) % MAX_APPS))

\* mutant of AppGetNext: the scan runs without the sweep before it
AppGetNext_NoSweep(tbl, cnt, cur, t) ==
    IF cnt = 0
    THEN [apps |-> tbl, appCount |-> cnt, cur |-> cur, found |-> FALSE]
    ELSE AppGetNextSwept([apps |-> tbl, appCount |-> cnt, cur |-> cur])

\* appGetNext: [apps, appCount, cur, found] after the call
AppGetNext(tbl, cnt, cur, t) ==
    IF cnt = 0
    THEN [apps |-> tbl, appCount |-> cnt, cur |-> cur, found |-> FALSE]
    ELSE AppGetNextSwept(AppCleanExpired(tbl, cnt, cur, t))

\* appGetCurrent: the current slot, or -1
AppGetCurrent(tbl, cur) ==
    IF cur >= 0 /\ cur < MAX_APPS /\ tbl[cur].active THEN cur ELSE -1

\* the scroll-state effect of displayShowApp: the weather clock and the
\* multi-zone layout return before the scroll state is looked at
DisplayShowAppScroll(app, s) ==
    IF app.id = WeatherClockId THEN s
    ELSE IF app.zoneCount >= 2 THEN s
    ELSE ScrollOnRender(s, CalculateTextWidth(app.text), DISPLAY_WIDTH - 4)

ActiveSlots(tbl) == {i \in AppSlots : tbl[i].active}

\* the object saveApps writes for one item ("label" is written when not
\* empty, "zoneCount" and the zones after zone 0 when zoneCount >= 2)
SavedItem(a) ==
    [id |-> a.id, icon |-> a.icon, textColor |-> a.textColor, duration |-> a.duration,
     lifetime |-> a.lifetime, priority |-> a.priority, text |-> a.text,
     textSegmentCount |-> a.textSegmentCount, textSegments |-> a.textSegments,
     label |-> a.label,
     zoneCount |-> IF a.zoneCount >= 2 THEN a.zoneCount ELSE 0,
     zones |-> IF a.zoneCount >= 2 THEN SubSeq(a.zones, 1, a.zoneCount - 1) ELSE << >>]

Persists(a) == a.active /\ ~a.isSystem

\* saveApps: the array written, the active non-system items in slot order
SaveApps(tbl) ==
    LET kept == SelectSeq([k \in 1..MAX_APPS |-> tbl[k - 1]], Persists) IN
    [k \in 1..Len(kept) |-> SavedItem(kept[k])]

-----------------------------------------------------------------------------
(* Notification queue.  A queue state is [q, count, cur]:                  *)
(* notifications[], notificationCount, currentNotifIndex.                   *)

EmptyNotif ==
    [text |-> <<>>, duration |-> 0, hold |-> FALSE, urgent |-> FALSE,
     stack |-> FALSE, active |-> FALSE, displayedAt |-> 0]

NotifState == [q |-> notifications, count |-> notificationCount, cur |-> currentNotifIndex]

ResetNotifScrollState(t) ==
    [scrollOffset |-> 0, lastScrollTime |-> t, scrollPhase |-> 0,
     needsScroll |-> FALSE, textWidth |-> 0, availableWidth |-> DISPLAY_WIDTH - 4]

\* mutant of NotifClearAll: the current index survives the clearing
NotifClearAll_KeepCurrent(N) ==
    [q |-> [i \in NotifSlots |-> [N.q[i] EXCEPT !.active = FALSE]],
     count |-> 0, cur |-> N.cur]

\* notifClearAll: every slot inactive, no current notification
NotifClearAll(N) ==
    [q |-> [i \in NotifSlots |-> [N.q[i] EXCEPT !.active = FALSE]],
     count |-> 0, cur |-> -1]

\* mutant of NotifAddOn: an urgent arrival waits in the queue like any other
NotifAddOn_NoUrgentJump(N, text, duration, hold, urgent, stack) ==
    LET N1 == IF ~stack THEN NotifClearAll(N) ELSE N
        free == {i \in NotifSlots : ~N1.q[i].active}
    IN
    IF free = {}
    THEN [q |-> N1.q, count |-> N1.count, cur |-> N1.cur, result |-> -1]
    ELSE [q |-> [N1.q EXCEPT ![FirstIn(free)] =
                    [text |-> Strlcpy(text, 128), duration |-> duration,
                     hold |-> hold, urgent |-> urgent, stack |-> stack,
                     active |-> TRUE, displayedAt |-> 0]],
          count |-> (N1.count + 1) % 256,
          cur |-> N1.cur,
          result |-> FirstIn(free)]

\* mutant of NotifAddOn: an urgent arrival at a full queue still moves the
\* current index
NotifAddOn_UrgentAtFull(N, text, duration, hold, urgent, stack) ==
    LET N1 == IF ~stack THEN NotifClearAll(N) ELSE N
        free == {i \in NotifSlots : ~N1.q[i].active}
    IN
    IF free = {}
    THEN [q |-> N1.q, count |-> N1.count,
          cur |-> IF urgent THEN MAX_NOTIFICATIONS - 1 ELSE N1.cur, result |-> -1]
    ELSE LET freeSlot == FirstIn(free) IN
         [q |-> [N1.q EXCEPT ![freeSlot] =
                    [text |-> Strlcpy(text, 128), duration |-> duration,
                     hold |-> hold, urgent |-> urgent, stack |-> stack,
                     active |-> TRUE, displayedAt |-> 0]],
          count |-> (N1.count + 1) % 256,
          cur |-> IF urgent THEN freeSlot ELSE N1.cur,
          result |-> freeSlot]

\* notifAdd: [q, count, cur, result] after the call
NotifAddOn(N, text, duration, hold, urgent, stack) ==
    LET N1 == IF ~stack THEN NotifClearAll(N) ELSE N
        free == {i \in NotifSlots : ~N1.q[i].active}
    IN
    IF free = {}
    THEN [q |-> N1.q, count |-> N1.count, cur |-> N1.cur, result |-> -1]
    ELSE LET freeSlot == FirstIn(free) IN
         [q |-> [N1.q EXCEPT ![freeSlot] =
                    [text |-> Strlcpy(text, 128), duration |-> duration,
                     hold |-> hold, urgent |-> urgent, stack |-> stack,
                     active |-> TRUE, displayedAt |-> 0]],
          count |-> (N1.count + 1) % 256,
          cur |-> IF urgent THEN freeSlot ELSE N1.cur,
          result |-> freeSlot]

\* notifGetCurrent: the current slot, or -1
NotifGetCurrent(N) == IF N.cur >= 0 /\ N.q[N.cur].active THEN N.cur ELSE -1

\* mutant of NotifDismiss: the live count is left as it was
NotifDismiss_KeepCount(N) ==
    IF N.cur < 0 \/ ~N.q[N.cur].active
    THEN N
    ELSE [q |-> [N.q EXCEPT ![N.cur].active = FALSE],
          count |-> N.count,
          cur |-> -1]

\* notifDismiss: [q, count, cur] after the call
NotifDismiss(N) ==
    IF N.cur < 0 \/ ~N.q[N.cur].active
    THEN N
    ELSE [q |-> [N.q EXCEPT ![N.cur].active = FALSE],
          count |-> (N.count - 1) % 256,
          cur |-> -1]

\* mutant of NotifNextIndex: only urgent notifications are looked for
NotifNextIndex_UrgentOnly(N) ==
    LET urgentNew == {i \in NotifSlots :
                         N.q[i].active /\ N.q[i].urgent /\ N.q[i].displayedAt = 0}
    IN
    IF N.count = 0 THEN -1
    ELSE IF urgentNew # {} THEN FirstIn(urgentNew)
    ELSE -1

\* notifGetNext: the slot it selects, or -1
NotifNextIndex(N) ==
    LET urgentNew == {i \in NotifSlots :
                         N.q[i].active /\ N.q[i].urgent /\ N.q[i].displayedAt = 0}
        anyNew == {i \in NotifSlots : N.q[i].active /\ N.q[i].displayedAt = 0}
    IN
    IF N.count = 0 THEN -1
    ELSE IF urgentNew # {} THEN FirstIn(urgentNew)
    ELSE IF anyNew # {} THEN FirstIn(anyNew)
    ELSE -1

\* mutant of NotifIsExpired: the hold flag is ignored
NotifIsExpired_IgnoreHold(n, t) ==
    IF ~n.active THEN TRUE
    ELSE IF n.duration = 0 THEN FALSE
    ELSE IF n.displayedAt = 0 THEN FALSE
    ELSE Elapsed(t, n.displayedAt) > n.duration

\* notifIsExpired
NotifIsExpired(n, t) ==
    IF ~n.active THEN TRUE
    ELSE IF n.hold \/ n.duration = 0 THEN FALSE
    ELSE IF n.displayedAt = 0 THEN FALSE
    ELSE Elapsed(t, n.displayedAt) > n.duration

\* displayShowNotification: the queue after the first-render stamp
DisplayShowNotification(q, i, t) ==
    IF ~q[i].active THEN q
    ELSE [q EXCEPT ![i].displayedAt = IF @ = 0 THEN t ELSE @]

\* displayShowNotification: its effect on the notification scroll state
DisplayShowNotifScroll(n, s) ==
    IF ~n.active THEN s
    ELSE ScrollOnRender(s, CalculateTextWidth(n.text), DISPLAY_WIDTH - 2 * 2)

-----------------------------------------------------------------------------
(* Icon cache, icon store and download blacklist.                          *)
(* A file of the icon store is [name, ext, size, hdr, ok]: ext is "png" or *)
(* "gif", size the width and height of the bitmap, hdr whether png.openRAM *)
(* accepts its header and ok whether png.decode then succeeds.  An icon of *)
(* the remote server is [id, ext, size, hdr, ok].                          *)

IconSlots == 0..(MAX_ICON_CACHE - 1)

FailedSlots == 0..(MAX_FAILED_ICON_DOWNLOADS - 1)

Digits == {"0", "1", "2", "3", "4", "5", "6", "7", "8", "9"}

DigitValue(c) ==
    CASE c = "0" -> 0 [] c = "1" -> 1 [] c = "2" -> 2 [] c = "3" -> 3 [] c = "4" -> 4
      [] c = "5" -> 5 [] c = "6" -> 6 [] c = "7" -> 7 [] c = "8" -> 8 [] c = "9" -> 9

\* strtoul(idStr, nullptr, 10): the value of the leading digits of idStr
\* (identifiers of the model stay far below the saturation value)
RECURSIVE StrToULFrom(_, _, _)
StrToULFrom(str, i, acc) ==
    IF i > Len(str) \/ str[i] \notin Digits THEN acc
    ELSE StrToULFrom(str, i + 1, acc * 10 + DigitValue(str[i]))

StrToUL(str) == StrToULFrom(str, 1, 0)

\* mutant of IsLaMetricName: the prefix alone decides
IsLaMetricName_PrefixOnly(name) ==
    Len(name) >= 3 /\ SubSeq(name, 1, 3) = <<"l", "m", "_">>

\* getIcon: strncmp(name, "lm_", 3) == 0 and the rest is a non-empty digit string
IsLaMetricName(name) ==
    /\ Len(name) > 3
    /\ SubSeq(name, 1, 3) = <<"l", "m", "_">>
    /\ \A i \in 4..Len(name) : name[i] \in Digits

HasPng(files, name) == \E f \in files : f.name = name /\ f.ext = "png"

PngOf(files, name) == CHOOSE f \in files : f.name = name /\ f.ext = "png"

\* the getIcon cache search: lowest valid slot holding the name, or -1
FindCached(cache, name) ==
    LET hits == {i \in IconSlots : cache[i].valid /\ cache[i].name = name} IN
    IF hits = {} THEN -1 ELSE FirstIn(hits)

\* the slot the scan of findLRUSlot ends with when every slot is valid
OldestSlot(cache) ==
    FirstIn({i \in IconSlots : \A j \in IconSlots : cache[i].lastUsed <= cache[j].lastUsed})

\* The heap is [live, fault]: the buffers allocated and not yet freed, and
\* whether free was ever given a pointer that is not a live buffer.  A
\* pointer is a positive number, 0 is nullptr.

EmptyHeap == [live |-> {}, fault |-> FALSE]

\* malloc: an address that is not in use (the lowest one)
Malloc(H) == FirstIn({p \in 1..(Cardinality(H.live) + 1) : p \notin H.live})

Allocated(H, p) == [H EXCEPT !.live = @ \cup {p}]

\* free(p)
Free(H, p) ==
    IF p = 0 THEN H
    ELSE IF p \in H.live THEN [H EXCEPT !.live = @ \ {p}]
    ELSE [H EXCEPT !.fault = TRUE]

\* mutant of FindLRUSlot: a full cache gives up its most recently used entry
FindLRUSlot_Newest(cache, H) ==
    LET invalid == {i \in IconSlots : ~cache[i].valid}
        newest == FirstIn({i \in IconSlots :
                              \A j \in IconSlots : cache[i].lastUsed >= cache[j].lastUsed})
    IN
    IF invalid # {} THEN [cache |-> cache, heap |-> H, slot |-> FirstIn(invalid)]
    ELSE [cache |-> [cache EXCEPT ![newest].pixels = 0, ![newest].valid = FALSE],
          heap |-> Free(H, cache[newest].pixels),
          slot |-> newest]

\* findLRUSlot: [cache, heap, slot] after the call
FindLRUSlot(cache, H) ==
    LET invalid == {i \in IconSlots : ~cache[i].valid} IN
    IF invalid # {} THEN [cache |-> cache, heap |-> H, slot |-> FirstIn(invalid)]
    ELSE IF cache[OldestSlot(cache)].pixels # 0
    THEN [cache |-> [cache EXCEPT ![OldestSlot(cache)].pixels = 0,
                                  ![OldestSlot(cache)].valid = FALSE],
          heap |-> Free(H, cache[OldestSlot(cache)].pixels),
          slot |-> OldestSlot(cache)]
    ELSE [cache |-> cache, heap |-> H, slot |-> OldestSlot(cache)]

\* mutant of LoadIconDecode: a failed decode forgets the buffer without freeing it
LoadIconDecode_Leak(s, p, file, name, t) ==
    IF ~file.ok
    THEN [cache |-> [s.cache EXCEPT ![s.slot].pixels = 0],
          heap |-> Allocated(s.heap, p),
          slot |-> -1]
    ELSE [cache |-> [s.cache EXCEPT ![s.slot] =
                        [name |-> Strlcpy(name, ICON_NAME_SIZE), pixels |-> p,
                         width |-> Min(file.size, 32), height |-> Min(file.size, 32),
                         valid |-> TRUE, lastUsed |-> t]],
          heap |-> Allocated(s.heap, p),
          slot |-> s.slot]

\* loadIcon after cached->pixels = malloc(...) returned p: the buffer is
\* freed again when png.decode fails, else the entry is filled in
LoadIconDecode(s, p, file, name, t) ==
    IF ~file.ok
    THEN [cache |-> [s.cache EXCEPT ![s.slot].pixels = 0],
          heap |-> Free(Allocated(s.heap, p), p),
          slot |-> -1]
    ELSE [cache |-> [s.cache EXCEPT ![s.slot] =
                        [name |-> Strlcpy(name, ICON_NAME_SIZE), pixels |-> p,
                         width |-> Min(file.size, 32), height |-> Min(file.size, 32),
                         valid |-> TRUE, lastUsed |-> t]],
          heap |-> Allocated(s.heap, p),
          slot |-> s.slot]

\* loadIcon once the file is known to exist and s = findLRUSlot() has run:
\* png.openRAM rejects a file without a PNG header before anything is allocated
LoadIconAt(s, file, name, t) ==
    IF ~file.hdr THEN [cache |-> s.cache, heap |-> s.heap, slot |-> -1]
    ELSE LoadIconDecode(s, Malloc(s.heap), file, name, t)

\* loadIcon: [cache, heap, slot] after the call, slot = -1 for nullptr
LoadIcon(cache, H, files, name, t) ==
    IF name = << >> \/ ~HasPng(files, name)
    THEN [cache |-> cache, heap |-> H, slot |-> -1]
    ELSE LoadIconAt(FindLRUSlot(cache, H), PngOf(files, name), name, t)

\* mutant of IsFailedIconDownload: the blacklist is never consulted
IsFailedIconDownload_Never(failed, name, t) == FALSE

IsFailedIconDownload(failed, name, t) ==
    \E i \in FailedSlots :
        /\ failed[i].name # << >>
        /\ failed[i].name = name
        /\ Elapsed(t, failed[i].failedAt) < FAILED_ICON_RETRY_DELAY

\* addFailedIconDownload: the first unused entry, else the oldest one
AddFailedIconDownload(failed, name, t) ==
    LET unused == {i \in FailedSlots : failed[i].name = << >>}
        oldest == {i \in FailedSlots :
                      \A j \in FailedSlots : failed[i].failedAt <= failed[j].failedAt}
        oldestIndex == IF unused # {} THEN FirstIn(unused) ELSE FirstIn(oldest)
    IN
    [failed EXCEPT ![oldestIndex] =
        [name |-> Strlcpy(name, ICON_NAME_SIZE), failedAt |-> t]]

\* mutant of InvalidateCachedIcon: the cache is left as it is
InvalidateCachedIcon_Noop(cache, H, name) == [cache |-> cache, heap |-> H]

InvalidateCachedIconAt(cache, H, i) ==
    IF i >= 0
    THEN [cache |-> [cache EXCEPT ![i].pixels = 0, ![i].valid = FALSE,
                                  ![i].name = << >>],
          heap |-> Free(H, cache[i].pixels)]
    ELSE [cache |-> cache, heap |-> H]

\* invalidateCachedIcon: [cache, heap] after the call
InvalidateCachedIcon(cache, H, name) ==
    IF name = << >> THEN [cache |-> cache, heap |-> H]
    ELSE InvalidateCachedIconAt(cache, H, FindCached(cache, name))

\* the file a successful download leaves in the store
SaveFile(files, name, r) ==
    {f \in files : ~(f.name = name /\ f.ext = r.ext)}
        \cup {[name |-> name, ext |-> r.ext, size |-> r.size, hdr |-> r.hdr,
               ok |-> r.ok]}

\* downloadLaMetricIcon: [cache, heap, files, ok]; the PNG is tried first,
\* then the GIF
DownloadLaMetricIcon(cache, H, files, remote, iconId, saveName) ==
    LET png == {r \in remote : r.id = iconId /\ r.ext = "png"}
        gif == {r \in remote : r.id = iconId /\ r.ext = "gif"}
        found == IF png # {} THEN png ELSE gif
    IN
    IF found = {} THEN [cache |-> cache, heap |-> H, files |-> files, ok |-> FALSE]
    ELSE [cache |-> InvalidateCachedIcon(cache, H, saveName).cache,
          heap |-> InvalidateCachedIcon(cache, H, saveName).heap,
          files |-> SaveFile(files, saveName, CHOOSE r \in found : TRUE),
          ok |-> TRUE]

\* The state getIcon works on is [cache, heap, failed, files, remote, log]; its
\* outcome adds op = [name, slot, fetch]: the name looked up, the cache slot
\* returned (-1 for nullptr) and whether a download was attempted.

NoIconOp == [name |-> << >>, slot |-> -1, fetch |-> FALSE]

\* c = [cache, heap] is what the call leaves of the cache
GetIconDone(I, c, name, slot, fetch) ==
    [cache |-> c.cache, heap |-> c.heap, failed |-> I.failed, files |-> I.files,
     log |-> I.log, op |-> [name |-> name, slot |-> slot, fetch |-> fetch]]

\* getIcon after the download succeeded and loadIcon returned L
GetIconReloaded(I, D, L, name) ==
    [cache |-> L.cache, heap |-> L.heap, failed |-> I.failed, files |-> D.files,
     log |-> I.log, op |-> [name |-> name, slot |-> L.slot, fetch |-> TRUE]]

\* getIcon after downloadLaMetricIcon returned D
GetIconFetched(I, D, name, t) ==
    IF D.ok
    THEN GetIconReloaded(I, D, LoadIcon(D.cache, D.heap, D.files, name, t), name)
    ELSE [cache |-> D.cache, heap |-> D.heap,
          failed |-> AddFailedIconDownload(I.failed, name, t),
          files |-> D.files,
          log |-> Append(I.log, [name |-> name, at |-> t]),
          op |-> [name |-> name, slot |-> -1, fetch |-> TRUE]]

\* getIcon after the first loadIcon returned L
GetIconLoaded(I, L, name, t) ==
    IF L.slot >= 0 THEN GetIconDone(I, L, name, L.slot, FALSE)
    ELSE IF IsLaMetricName(name) /\ ~IsFailedIconDownload(I.failed, name, t)
    THEN GetIconFetched(I, DownloadLaMetricIcon(L.cache, L.heap, I.files, I.remote,
                                                StrToUL(SubSeq(name, 4, Len(name))), name),
                        name, t)
    ELSE GetIconDone(I, L, name, -1, FALSE)

GetIconHit(I, i, name, t) ==
    GetIconDone(I, [cache |-> [I.cache EXCEPT ![i].lastUsed = t], heap |-> I.heap],
                name, i, FALSE)

\* getIcon
GetIcon(I, name, t) ==
    IF name = << >> THEN GetIconDone(I, I, name, -1, FALSE)
    ELSE IF FindCached(I.cache, name) >= 0
    THEN GetIconHit(I, FindCached(I.cache, name), name, t)
    ELSE GetIconLoaded(I, LoadIcon(I.cache, I.heap, I.files, name, t), name, t)

IconState ==
    [cache |-> iconCache, heap |-> heap, failed |-> failedIconDownloads,
     files |-> iconFiles, remote |-> remoteIcons, log |-> fetchLog]

\* displayShowApp, single-zone layout: the text goes below a drawn icon
\* (2x upscaled when at most 8x8), else to its default position
TextYPos(cache, slot) ==
    IF slot >= 0 /\ cache[slot].valid
    THEN 2 + cache[slot].height *
             (IF cache[slot].width <= 8 /\ cache[slot].height <= 8 THEN 2 ELSE 1) + 6
    ELSE 28

IconCommit(g) ==
    /\ iconCache' = g.cache
    /\ heap' = g.heap
    /\ failedIconDownloads' = g.failed
    /\ iconFiles' = g.files
    /\ fetchLog' = g.log
    /\ iconOp' = g.op
    /\ layout' = [textYPos |-> TextYPos(g.cache, g.op.slot), zones |-> << >>]
    /\ UNCHANGED remoteIcons

\* a pass that renders no single-zone app
NoAppRender ==
    /\ iconOp' = NoIconOp
    /\ UNCHANGED << iconCache, failedIconDownloads, heap, iconFiles, fetchLog,
                    layout, remoteIcons >>

\* integer division of C: the quotient is truncated towards zero
TruncDiv(a, b) == IF a >= 0 THEN a \div b ELSE -((-a) \div b)

\* displayShowMultiZone: zone 0 is built from the item's main fields
Zone0(app) ==
    [text |-> Strlcpy(app.text, 32), icon |-> Strlcpy(app.icon, 32),
     label |-> Strlcpy(app.label, 32), textColor |-> app.textColor]

\* displayShowMultiZone: allZones[], zone 0 and then zones[0 .. zoneCount - 2]
AllZones(app) ==
    << Zone0(app) >> \o
    [i \in 1..(Min(app.zoneCount, MAX_ZONES) - 1) |-> app.zones[i]]

Rect(x, y, w, h) == [x |-> x, y |-> y, w |-> w, h |-> h]

\* mutant of ZoneRects: the bottom row starts on the separator line and
\* keeps its height
ZoneRects_Shifted(zoneCount) ==
    CASE zoneCount = 2 -> << Rect(0, 0, 64, 31), Rect(0, 34, 64, 31) >>
      [] zoneCount = 3 -> << Rect(0, 0, 64, 31), Rect(0, 34, 31, 31), Rect(33, 34, 31, 31) >>
      [] zoneCount = 4 -> << Rect(0, 0, 31, 31), Rect(33, 0, 31, 31),
                             Rect(0, 34, 31, 31), Rect(33, 34, 31, 31) >>
      [] OTHER -> << >>

\* displayShowMultiZone, the switch: the bounding boxes handed to
\* displayShowZone, in call order; a count the switch has no case for
\* draws no zone
ZoneRects(zoneCount) ==
    CASE zoneCount = 2 -> << Rect(0, 0, 64, 31), Rect(0, 33, 64, 31) >>
      [] zoneCount = 3 -> << Rect(0, 0, 64, 31), Rect(0, 33, 31, 31), Rect(33, 33, 31, 31) >>
      [] zoneCount = 4 -> << Rect(0, 0, 31, 31), Rect(33, 0, 31, 31),
                             Rect(0, 33, 31, 31), Rect(33, 33, 31, 31) >>
      [] OTHER -> << >>

\* displayShowZone, where the text starts: after the icon when one is drawn
ZoneTextX(r, isFullWidth, hasIcon, iconWidth, iconHeight) ==
    IF ~hasIcon THEN (IF isFullWidth THEN r.x + 2 ELSE r.x)
    ELSE IF isFullWidth
    THEN r.x + 2 + ((iconWidth * (IF iconWidth <= 8 /\ iconHeight <= 8 THEN 2 ELSE 1)) % 256) + 3
    ELSE r.x + iconWidth + 1

\* displayShowZone, the truncation of the text to the width left of the zone
ZoneText(text, maxChars) ==
    IF Len(text) > maxChars /\ maxChars > 0 THEN SubSeq(text, 1, maxChars) ELSE text

\* displayShowZone for a text that starts at textX: what is drawn
DisplayShowZoneAt(zone, r, isFullWidth, hasIcon, textX) ==
    [box |-> r,
     isFullWidth |-> isFullWidth,
     hasIcon |-> hasIcon,
     useCompactText |-> ~isFullWidth /\ Len(zone.text) * 6 > (r.x + r.w) - textX,
     text |-> ZoneText(Strlcpy(zone.text, 32),
                       TruncDiv((r.x + r.w) - textX,
                                IF ~isFullWidth /\ Len(zone.text) * 6 > (r.x + r.w) - textX
                                THEN 4 ELSE 6)),
     icon |-> zone.icon,
     label |-> zone.label,
     textColor |-> zone.textColor]

\* displayShowZone(zone, x, y, w, h) after getIcon(zone->icon) returned g
DisplayShowZone(zone, g, r) ==
    DisplayShowZoneAt(zone, r, r.w >= 48,
                      g.op.slot >= 0 /\ g.cache[IF g.op.slot >= 0 THEN g.op.slot ELSE 0].valid,
                      ZoneTextX(r, r.w >= 48,
                                g.op.slot >= 0
                                  /\ g.cache[IF g.op.slot >= 0 THEN g.op.slot ELSE 0].valid,
                                g.cache[IF g.op.slot >= 0 THEN g.op.slot ELSE 0].width,
                                g.cache[IF g.op.slot >= 0 THEN g.op.slot ELSE 0].height))

\* the icon state getIcon leaves behind
AfterGetIcon(I, g) ==
    [cache |-> g.cache, heap |-> g.heap, failed |-> g.failed, files |-> g.files,
     remote |-> I.remote, log |-> g.log]

\* displayShowMultiZone, the calls of displayShowZone from the k-th on:
\* [I, op, drawn], the icon state, the last icon lookup and the zones drawn
RECURSIVE DisplayShowZones(_, _, _, _, _, _, _)

DisplayShowZonesStep(I, g, zs, rects, k, acc, t) ==
    DisplayShowZones(AfterGetIcon(I, g), zs, rects, k + 1,
                     Append(acc, DisplayShowZone(zs[k], g, rects[k])), g.op, t)

DisplayShowZones(I, zs, rects, k, acc, op, t) ==
    IF k > Len(rects) THEN [I |-> I, op |-> op, drawn |-> acc]
    ELSE IF k > Len(zs) THEN DisplayShowZones(I, zs, rects, k + 1, acc, op, t)
    ELSE DisplayShowZonesStep(I, GetIcon(I, zs[k].icon, t), zs, rects, k, acc, t)

\* displayShowMultiZone(app)
DisplayShowMultiZone(I, app, t) ==
    DisplayShowZones(I, AllZones(app), ZoneRects(app.zoneCount), 1, << >>, NoIconOp, t)

\* what a multi-zone render leaves: the icon lookups of its zones and the
\* zones on the panel; the single-zone text position is not computed
ZoneCommit(r) ==
    /\ iconCache' = r.I.cache
    /\ heap' = r.I.heap
    /\ failedIconDownloads' = r.I.failed
    /\ iconFiles' = r.I.files
    /\ fetchLog' = r.I.log
    /\ iconOp' = r.op
    /\ layout' = [textYPos |-> layout.textYPos, zones |-> r.drawn]
    /\ UNCHANGED remoteIcons

\* the icon and layout part of displayShowApp(&tbl[idx]); idx = -1: no app render
DisplayShowAppIcon(tbl, idx) ==
    IF idx < 0 THEN NoAppRender
    ELSE IF tbl[idx].id = WeatherClockId THEN NoAppRender
    ELSE IF tbl[idx].zoneCount >= 2
    THEN ZoneCommit(DisplayShowMultiZone(IconState, tbl[idx], now))
    ELSE IconCommit(GetIcon(IconState, tbl[idx].icon, now))

-----------------------------------------------------------------------------
(* Coloured text segments *)

\* A text is a sequence of bytes: "C3" "A9" are the two bytes of an
\* accented letter in UTF-8, "01" is a byte that is not printable (below
\* 32), every other byte of the model is printable ASCII.

Unprintable == {"01"}

MAX_TEXT_SEGMENTS == 8

\* parseTextFieldWithSegments, array form, from element k on: acc is
\* [text, segments] so far and the position pos is the number of bytes
\* copied; an element that does not fit ends the loop
RECURSIVE ParseSegmentsFrom(_, _, _, _, _)
ParseSegmentsFrom(arr, k, acc, size, defaultColor) ==
    IF k > Len(arr) THEN acc
    ELSE IF Len(acc.segments) >= MAX_TEXT_SEGMENTS THEN acc
    ELSE IF Len(acc.text) + Len(arr[k].t) >= size THEN acc
    ELSE ParseSegmentsFrom(arr, k + 1,
                           [text |-> acc.text \o arr[k].t,
                            segments |-> Append(acc.segments,
                                                [offset |-> Len(acc.text) % 256,
                                                 color |-> arr[k].c])],
                           size, defaultColor)

\* parseTextFieldWithSegments for an array [{"t", "c"}, ...]: [text, segments]
ParseTextFieldWithSegments(arr, size, defaultColor) ==
    ParseSegmentsFrom(arr, 1, [text |-> << >>, segments |-> << >>], size, defaultColor)

\* printTextWithSegments, head of the loop: the segment in force for the
\* next character (segments are counted from 0, segs[k + 1] is segments[k])
SegmentAt(segs, cur, charIndex) ==
    IF cur + 1 < Len(segs) /\ charIndex >= segs[cur + 2].offset THEN cur + 1 ELSE cur

\* printTextWithSegments from byte p on with segment cur in force: the
\* glyphs drawn, each [at, color] with at the position of its first byte
RECURSIVE PrintFrom(_, _, _, _, _)

\* one turn of the loop: the colour switch, then the character at p
PrintNext(text, segs, p, charIndex, cur) ==
    IF p > Len(text) THEN << >>
    ELSE PrintFrom(text, segs, p, charIndex, SegmentAt(segs, cur, charIndex))

PrintFrom(text, segs, p, charIndex, cur) ==
    IF p > Len(text) THEN << >>
    ELSE IF text[p] = "C3"
    THEN << [at |-> p, color |-> segs[cur + 1].color] >>
           \o PrintNext(text, segs, p + 2, charIndex + 1, cur)
    ELSE IF text[p] \notin Unprintable
    THEN << [at |-> p, color |-> segs[cur + 1].color] >>
           \o PrintNext(text, segs, p + 1, charIndex + 1, cur)
    ELSE PrintNext(text, segs, p + 1, charIndex, cur)

\* printTextWithSegments: the glyphs drawn; without segments the text is
\* drawn in the default colour by printTextWithSpecialChars
PrintTextWithSegments(text, defaultColor, segs) ==
    IF Len(segs) = 0
    THEN PrintFrom(text, << [offset |-> 0, color |-> defaultColor] >>, 1, 0, 0)
    ELSE PrintNext(text, segs, 1, 0, 0)

-----------------------------------------------------------------------------
(* loopApps *)

\* The notification part of loopApps works on a record
\* [N, nscroll, ldu, saved, expired, shown]: the queue state, notifScrollState,
\* lastDisplayUpdate, savedAppIndex, whether the current notification expired
\* in this pass, and the slot this pass made current (-1: none).

\* currentNotifIndex = slot; resetNotifScrollState(); displayShowNotification();
\* lastDisplayUpdate = now
LoopAppsShow(S, i, t) ==
    [S EXCEPT !.N = [q |-> DisplayShowNotification(S.N.q, i, t),
                     count |-> S.N.count, cur |-> i],
              !.nscroll = DisplayShowNotifScroll(S.N.q[i], ResetNotifScrollState(t)),
              !.ldu = t,
              !.shown = i]

LoopAppsShowNext(S, next, t) == IF next >= 0 THEN LoopAppsShow(S, next, t) ELSE S

\* loopApps once the current notification has been found expired:
\* notifDismiss(), resetNotifScrollState(), and the next one, if any, is
\* shown at once
LoopAppsExpired(S, t) ==
    LoopAppsShowNext([S EXCEPT !.N = NotifDismiss(S.N),
                               !.nscroll = ResetNotifScrollState(t),
                               !.expired = TRUE],
                     NotifNextIndex(NotifDismiss(S.N)), t)

\* loopApps, lines "Check active notification": the current notification is
\* dismissed when expired
LoopAppsExpire(S, c, t) ==
    IF c >= 0 /\ NotifIsExpired(S.N.q[c], t)
    THEN LoopAppsExpired(S, t)
    ELSE S

LoopAppsSave(S, cur) == [S EXCEPT !.saved = IF @ < 0 THEN cur ELSE @]

LoopAppsSelectNext(S, next, cur, t) ==
    IF next >= 0 THEN LoopAppsShow(LoopAppsSave(S, cur), next, t) ELSE S

\* loopApps, lines "Check for new notifications": with no current
\* notification the next pending one is selected, saving the app index
LoopAppsSelect(S, cur, t) ==
    IF NotifGetCurrent(S.N) < 0
    THEN LoopAppsSelectNext(S, NotifNextIndex(S.N), cur, t)
    ELSE S

\* loopApps, notification part: expiry of the current notification and
\* selection of the next one
LoopAppsNotif(N0, nscroll, ldu, saved, cur, t) ==
    LoopAppsSelect(
        LoopAppsExpire([N |-> N0, nscroll |-> nscroll, ldu |-> ldu, saved |-> saved,
                        expired |-> FALSE, shown |-> -1],
                       NotifGetCurrent(N0), t),
        cur, t)

\* the item g = appGetNext() found becomes current: resetScrollState,
\* lastAppSwitch = now, displayShowApp, lastDisplayUpdate = now
LoopAppsMoved(g, las, sc, ldu, t) ==
    [apps |-> g.apps, appCount |-> g.appCount, cur |-> g.cur,
     las |-> IF g.found THEN t ELSE las,
     sc |-> IF g.found
            THEN DisplayShowAppScroll(g.apps[g.cur], ResetScrollState(t))
            ELSE sc,
     ldu |-> IF g.found THEN t ELSE ldu,
     advanced |-> g.found]

LoopAppsStay(tbl, cnt, cur, las, sc, ldu) ==
    [apps |-> tbl, appCount |-> cnt, cur |-> cur, las |-> las,
     sc |-> sc, ldu |-> ldu, advanced |-> FALSE]

\* mutant of LoopAppsRotate: the item is replaced as soon as its duration is reached
LoopAppsRotate_AtDuration(tbl, cnt, cur, las, sc, ldu, rot, t) ==
    IF cnt = 0 THEN LoopAppsStay(tbl, cnt, cur, las, sc, ldu)
    ELSE IF AppGetCurrent(tbl, cur) = -1
    THEN LoopAppsMoved(AppGetNext(tbl, cnt, cur, t), las, sc, ldu, t)
    ELSE IF rot /\ Elapsed(t, las) >= tbl[cur].duration
    THEN LoopAppsMoved(AppGetNext(tbl, cnt, cur, t), las, sc, ldu, t)
    ELSE LoopAppsStay(tbl, cnt, cur, las, sc, ldu)

\* loopApps, lines "Normal app rotation": select an item when none is current,
\* advance when the current item's duration has elapsed
LoopAppsRotate(tbl, cnt, cur, las, sc, ldu, rot, t) ==
    IF cnt = 0 THEN LoopAppsStay(tbl, cnt, cur, las, sc, ldu)
    ELSE IF AppGetCurrent(tbl, cur) = -1
    THEN LoopAppsMoved(AppGetNext(tbl, cnt, cur, t), las, sc, ldu, t)
    ELSE IF rot /\ Elapsed(t, las) > tbl[cur].duration
    THEN LoopAppsMoved(AppGetNext(tbl, cnt, cur, t), las, sc, ldu, t)
    ELSE LoopAppsStay(tbl, cnt, cur, las, sc, ldu)

\* loopApps, lines "Just finished all notifications": restore the saved index
LoopAppsRestore(tbl, cur, las, sc, ldu, saved, t) ==
    IF saved >= 0
    THEN LET restored == AppGetCurrent(tbl, saved) IN
         [cur |-> saved, las |-> t,
          sc |-> IF restored >= 0
                 THEN DisplayShowAppScroll(tbl[restored], ResetScrollState(t))
                 ELSE ResetScrollState(t),
          ldu |-> IF restored >= 0 THEN t ELSE ldu,
          restored |-> TRUE]
    ELSE [cur |-> cur, las |-> las, sc |-> sc, ldu |-> ldu, restored |-> FALSE]

\* the time a surface entered its present phase: scrollPhase took a new
\* value, or a surface that did not scroll began to (in PauseStart)
PhaseSinceAfter(since, before, after, t) ==
    IF after.scrollPhase # before.scrollPhase \/ (after.needsScroll /\ ~before.needsScroll)
    THEN t
    ELSE since

-----------------------------------------------------------------------------
(* Corner indicators *)

NUM_INDICATORS == 3

INDICATOR_BLINK_INTERVAL == 500

INDICATOR_FADE_PERIOD == 2000

IndicatorSlots == 0..(NUM_INDICATORS - 1)

\* indicatorInit: every indicator off, the colours red, green and blue
IndicatorInit ==
    [indicators |-> [i \in IndicatorSlots |->
                       [mode |-> "off",
                        color |-> IF i = 0 THEN 16711680 ELSE IF i = 1 THEN 65280 ELSE 255,
                        blinkInterval |-> INDICATOR_BLINK_INTERVAL,
                        fadePeriod |-> INDICATOR_FADE_PERIOD]],
     anim |-> [i \in IndicatorSlots |->
                 [lastToggle |-> 0, blinkOn |-> FALSE, cycleStart |-> 0]]]

\* indicatorSet: [indicators, anim] after the call
IndicatorSet(inds, anim, index, mode, color, blinkInterval, fadePeriod, t) ==
    IF index >= NUM_INDICATORS THEN [indicators |-> inds, anim |-> anim]
    ELSE [indicators |-> [inds EXCEPT ![index] =
                            [mode |-> mode,
                             color |-> color,
                             blinkInterval |-> IF blinkInterval > 0 THEN blinkInterval
                                               ELSE INDICATOR_BLINK_INTERVAL,
                             fadePeriod |-> IF fadePeriod > 0 THEN fadePeriod
                                            ELSE INDICATOR_FADE_PERIOD]],
          anim |-> [anim EXCEPT ![index] =
                      [lastToggle |-> t, blinkOn |-> TRUE, cycleStart |-> t]]]

\* indicatorOff
IndicatorOff(inds, index) ==
    IF index >= NUM_INDICATORS THEN inds ELSE [inds EXCEPT ![index].mode = "off"]

\* indicatorNeedsRedraw
IndicatorNeedsRedraw(inds) == \E i \in IndicatorSlots : inds[i].mode \in {"blink", "fade"}

\* drawIndicators, fade: elapsed = (now - cycleStart) % fadePeriod
FadeElapsed(t, cycleStart, fadePeriod) == Elapsed(t, cycleStart) % fadePeriod

\* drawIndicators, fade, for halfPeriod > 0: the product 245 * .. is cast to
\* uint16_t before the division and the sum is stored in a uint8_t
FadeBrightness(fadePeriod, elapsed) ==
    IF elapsed < fadePeriod \div 2
    THEN (10 + ((245 * elapsed) % 65536) \div (fadePeriod \div 2)) % 256
    ELSE (10 + ((245 * (fadePeriod - elapsed)) % 65536) \div (fadePeriod \div 2)) % 256

\* the processor's integer-divide-by-zero exception
DivideByZero == -1

\* the values kept of a uint8_t whose computation was undefined
UndefinedBrightness == {0, 128, 255}

\* drawIndicators, fade: the values brightness can take.  With halfPeriod
\* = 0 the division is undefined: the exception, or some value of a uint8_t
FadeOutcomes(fadePeriod, elapsed) ==
    IF fadePeriod \div 2 = 0 THEN {DivideByZero} \cup UndefinedBrightness
    ELSE {FadeBrightness(fadePeriod, elapsed)}

\* drawIndicators: the values brightness can take for indicator i
BrightnessOutcomes(inds, anim, i, t) ==
    IF inds[i].mode = "fade"
    THEN FadeOutcomes(inds[i].fadePeriod, FadeElapsed(t, anim[i].cycleStart, inds[i].fadePeriod))
    ELSE {255}

\* drawIndicators, fade: r = (uint16_t)r * brightness / 255, per channel
ScaleChannel(c, brightness) == ((c * brightness) \div 255) % 256

ScaleColor(color, brightness) ==
    << ScaleChannel((color \div 65536) % 256, brightness),
       ScaleChannel((color \div 256) % 256, brightness),
       ScaleChannel(color % 256, brightness) >>

\* drawIndicators, blink: the toggle is flipped once blinkInterval has passed
BlinkAfter(ind, a, t) ==
    IF ind.mode = "blink" /\ Elapsed(t, a.lastToggle) >= ind.blinkInterval
    THEN [a EXCEPT !.blinkOn = ~a.blinkOn, !.lastToggle = t]
    ELSE a

NotLit == [lit |-> FALSE, brightness |-> 0, elapsed |-> 0, color |-> << 0, 0, 0 >>]

\* drawIndicators: what is drawn in the corner of an indicator whose
\* animation state is a and whose brightness came out as b
DrawIndicator(ind, a, b, t) ==
    IF ind.mode = "off" THEN NotLit
    ELSE IF ind.mode = "blink" /\ ~a.blinkOn THEN NotLit
    ELSE [lit |-> b # DivideByZero,
          brightness |-> b,
          elapsed |-> IF ind.mode = "fade" THEN FadeElapsed(t, a.cycleStart, ind.fadePeriod)
                      ELSE 0,
          color |-> IF ind.mode = "fade" /\ b # DivideByZero THEN ScaleColor(ind.color, b)
                    ELSE ScaleColor(ind.color, 255)]

\* drawIndicators with brightness b[i] for indicator i
DrawIndicators(b) ==
    /\ indicatorAnimState' = [i \in IndicatorSlots |->
                                BlinkAfter(indicators[i], indicatorAnimState[i], now)]
    /\ indicatorDrawn' = [i \in IndicatorSlots |->
                            DrawIndicator(indicators[i],
                                          BlinkAfter(indicators[i], indicatorAnimState[i], now),
                                          b[i + 1], now)]
    /\ UNCHANGED indicators

\* a step of loop() that called one of the display functions, each of which
\* ends with drawIndicators: loopDisplay when it redraws, loopApps when it
\* makes an item or a notification current
RenderStep ==
    \/ lastOp'.op = "loopDisplay" /\ lastOp'.drew
    \/ lastOp'.op = "loopApps" /\ lastDisplayUpdate' = now /\ lastDisplayUpdate # now

\* the indicator part of a step of loop()
IndicatorsUpdate ==
    IF RenderStep
    THEN \E b0 \in BrightnessOutcomes(indicators, indicatorAnimState, 0, now),
            b1 \in BrightnessOutcomes(indicators, indicatorAnimState, 1, now),
            b2 \in BrightnessOutcomes(indicators, indicatorAnimState, 2, now) :
            DrawIndicators(<< b0, b1, b2 >>)
    ELSE UNCHANGED indicatorVars

\* loopDisplay: indicatorNeedsRedraw() && (now - lastDisplayUpdate > 50)
IndicatorRedraw ==
    IndicatorNeedsRedraw(indicators) /\ Elapsed(now, lastDisplayUpdate) > 50

PhaseSinceUpdate ==
    phaseSince' = [app |-> PhaseSinceAfter(phaseSince.app, appScrollState,
                                           appScrollState', now),
                   notif |-> PhaseSinceAfter(phaseSince.notif, notifScrollState,
                                             notifScrollState', now)]

MarkCurrent(meta, i) == IF i >= 0 THEN [meta EXCEPT ![i].wasCurrent = TRUE] ELSE meta

\* the rotation log keeps the slots made current by the last advances over
\* an unchanged active set (at most as many as there are active items)
LogAdvance(log, tblBefore, tblAfter, idx) ==
    LET k == Cardinality(ActiveSlots(tblAfter)) IN
    IF ActiveSlots(tblBefore) # ActiveSlots(tblAfter) THEN << idx >>
    ELSE IF Len(log) >= k THEN Append(Tail(log), idx)
    ELSE Append(log, idx)

\* a notification is current after the notification part: the app side is frozen
LoopAppsShowing(n) ==
    /\ savedAppIndex' = n.saved
    /\ lastDisplayUpdate' = n.ldu
    /\ UNCHANGED << apps, appCount, currentAppIndex, lastAppSwitch,
                    appScrollState, rotationLog >>
    /\ NoAppRender
    /\ rendered' = IF n.shown >= 0 THEN [kind |-> "notif", index |-> n.shown]
                   ELSE rendered
    /\ preemptedApp' = IF n.shown >= 0 /\ preemptedApp = -2
                       THEN currentAppIndex ELSE preemptedApp
    /\ lastOp' = [op |-> "loopApps", expired |-> n.expired, restored |-> FALSE,
                  advanced |-> FALSE, drained |-> FALSE]

\* no notification is current: r is the outcome of the restore block and a
\* the outcome of the rotation block
LoopAppsIdle(n, r, a) ==
    /\ savedAppIndex' = IF n.saved >= 0 THEN -1 ELSE n.saved
    /\ apps' = a.apps
    /\ appCount' = a.appCount
    /\ currentAppIndex' = a.cur
    /\ lastAppSwitch' = a.las
    /\ appScrollState' = a.sc
    /\ lastDisplayUpdate' = a.ldu
    /\ rotationLog' = IF a.advanced
                      THEN LogAdvance(IF r.restored THEN << >> ELSE rotationLog,
                                      apps, a.apps, a.cur)
                      ELSE IF r.restored \/ ActiveSlots(a.apps) # ActiveSlots(apps)
                      THEN << >>
                      ELSE rotationLog
    /\ rendered' = IF a.advanced THEN [kind |-> "app", index |-> a.cur]
                   ELSE IF r.restored /\ AppGetCurrent(apps, r.cur) >= 0
                   THEN [kind |-> "app", index |-> r.cur]
                   ELSE rendered
    /\ DisplayShowAppIcon(a.apps, IF a.advanced THEN a.cur
                                  ELSE IF r.restored /\ AppGetCurrent(apps, r.cur) >= 0
                                  THEN r.cur
                                  ELSE -1)
    /\ preemptedApp' = -2
    /\ lastOp' = [op |-> "loopApps", expired |-> n.expired, restored |-> r.restored,
                  advanced |-> a.advanced, drained |-> preemptedApp # -2]

LoopAppsRestored(n, r) ==
    LoopAppsIdle(n, r, LoopAppsRotate(apps, appCount, r.cur, r.las, r.sc, r.ldu,
                                      appRotationEnabled, now))

LoopAppsAfterNotif(n) ==
    /\ notifications' = n.N.q
    /\ notificationCount' = n.N.count
    /\ currentNotifIndex' = n.N.cur
    /\ notifScrollState' = n.nscroll
    /\ notifMeta' = MarkCurrent(notifMeta, n.shown)
    /\ IF NotifGetCurrent(n.N) >= 0
       THEN LoopAppsShowing(n)
       ELSE LoopAppsRestored(n, LoopAppsRestore(apps, currentAppIndex, lastAppSwitch,
                                                appScrollState, n.ldu, n.saved, now))

LoopApps ==
    /\ pc = "apps"
    /\ pc' = "display"
    /\ LoopAppsAfterNotif(LoopAppsNotif(NotifState, notifScrollState, lastDisplayUpdate,
                                        savedAppIndex, currentAppIndex, now))
    /\ PhaseSinceUpdate
    /\ UNCHANGED << now, appRotationEnabled, settings, lastScrollUpdate,
                    lastNotifScrollUpdate, notifSeq, mgmtOps >>
    /\ UNCHANGED savedApps
    /\ IndicatorsUpdate

\* loopApps has found the current notification expired
LoopAppsFindsExpired ==
    /\ NotifGetCurrent(NotifState) >= 0
    /\ NotifIsExpired(notifications[NotifGetCurrent(NotifState)], now)

\* loopApps up to the call of notifDismiss(): currentNotif has been read and
\* found expired.  The request handlers run in the task of the asynchronous
\* web server, which can be scheduled at this point.
LoopAppsTest ==
    /\ pc = "apps"
    /\ LoopAppsFindsExpired
    /\ pc' = "expiring"
    /\ lastOp' = [op |-> "loopAppsTest", slot |-> currentNotifIndex]
    /\ UNCHANGED << now, appVars, notifVars, iconVars, lastNotifScrollUpdate,
                    lastDisplayUpdate, rendered, phaseSince, rotationLog, notifSeq,
                    notifMeta, preemptedApp, mgmtOps, savedApps >>
    /\ IndicatorsUpdate

\* loopApps from the call of notifDismiss() to its end
LoopAppsResume ==
    /\ pc = "expiring"
    /\ pc' = "display"
    /\ LoopAppsAfterNotif(
          LoopAppsSelect(
            LoopAppsExpired([N |-> NotifState, nscroll |-> notifScrollState,
                             ldu |-> lastDisplayUpdate, saved |-> savedAppIndex,
                             expired |-> FALSE, shown |-> -1], now),
            currentAppIndex, now))
    /\ PhaseSinceUpdate
    /\ UNCHANGED << now, appRotationEnabled, settings, lastScrollUpdate,
                    lastNotifScrollUpdate, notifSeq, mgmtOps >>
    /\ UNCHANGED savedApps
    /\ IndicatorsUpdate

-----
(* loopDisplay (no indicator is in blink or fade mode) *)

\* the scroll animation block: [s, last, redraw]
Animate(s, last, t) ==
    IF s.needsScroll /\ Elapsed(t, last) >= SCROLL_SPEED
    THEN [s |-> ScrollStep(s, t), last |-> t, redraw |-> s.scrollPhase = 1]
    ELSE [s |-> s, last |-> last, redraw |-> FALSE]

\* mutant of LoopDisplay: nothing is drawn when no item is current
LoopDisplay_NoFallback ==
    /\ pc = "display"
    /\ pc' = "delay"
    /\ LET c == NotifGetCurrent(NotifState)
           current == AppGetCurrent(apps, currentAppIndex)
       IN
       IF c >= 0
       THEN LET an == Animate(notifScrollState, lastNotifScrollUpdate, now)
                draw == Elapsed(now, lastDisplayUpdate) > 1000 \/ an.redraw \/ IndicatorRedraw
            IN
            /\ lastNotifScrollUpdate' = an.last
            /\ notifScrollState' = IF draw
                                   THEN DisplayShowNotifScroll(notifications[c], an.s)
                                   ELSE an.s
            /\ notifications' = IF draw
                                THEN DisplayShowNotification(notifications, c, now)
                                ELSE notifications
            /\ lastDisplayUpdate' = IF draw THEN now ELSE lastDisplayUpdate
            /\ rendered' = IF draw THEN [kind |-> "notif", index |-> c] ELSE rendered
            /\ lastOp' = [op |-> "loopDisplay", drew |-> draw]
            /\ NoAppRender
            /\ UNCHANGED << appScrollState, lastScrollUpdate >>
       ELSE LET aa == IF current >= 0
                      THEN Animate(appScrollState, lastScrollUpdate, now)
                      ELSE [s |-> appScrollState, last |-> lastScrollUpdate,
                            redraw |-> FALSE]
                draw == Elapsed(now, lastDisplayUpdate) > 1000 \/ aa.redraw \/ IndicatorRedraw
            IN
            /\ lastScrollUpdate' = aa.last
            /\ appScrollState' = IF draw /\ current >= 0
                                 THEN DisplayShowAppScroll(apps[current], aa.s)
                                 ELSE aa.s
            /\ lastDisplayUpdate' = IF draw THEN now ELSE lastDisplayUpdate
            /\ rendered' = IF ~draw THEN rendered
                           ELSE IF current >= 0 THEN [kind |-> "app", index |-> current]
                           ELSE rendered
            /\ lastOp' = [op |-> "loopDisplay", drew |-> draw]
            /\ DisplayShowAppIcon(apps, IF draw THEN current ELSE -1)
            /\ UNCHANGED << notifications, notifScrollState, lastNotifScrollUpdate >>
    /\ UNCHANGED << now, apps, appCount, currentAppIndex, lastAppSwitch,
                    appRotationEnabled, settings, notificationCount, currentNotifIndex,
                    savedAppIndex, rotationLog, notifSeq, notifMeta,
                    preemptedApp, mgmtOps >>
    /\ PhaseSinceUpdate
    /\ UNCHANGED savedApps
    /\ IndicatorsUpdate

LoopDisplay ==
    /\ pc = "display"
    /\ pc' = "delay"
    /\ LET c == NotifGetCurrent(NotifState)
           current == AppGetCurrent(apps, currentAppIndex)
       IN
       IF c >= 0
       THEN LET an == Animate(notifScrollState, lastNotifScrollUpdate, now)
                draw == Elapsed(now, lastDisplayUpdate) > 1000 \/ an.redraw \/ IndicatorRedraw
            IN
            /\ lastNotifScrollUpdate' = an.last
            /\ notifScrollState' = IF draw
                                   THEN DisplayShowNotifScroll(notifications[c], an.s)
                                   ELSE an.s
            /\ notifications' = IF draw
                                THEN DisplayShowNotification(notifications, c, now)
                                ELSE notifications
            /\ lastDisplayUpdate' = IF draw THEN now ELSE lastDisplayUpdate
            /\ rendered' = IF draw THEN [kind |-> "notif", index |-> c] ELSE rendered
            /\ lastOp' = [op |-> "loopDisplay", drew |-> draw]
            /\ NoAppRender
            /\ UNCHANGED << appScrollState, lastScrollUpdate >>
       ELSE LET aa == IF current >= 0
                      THEN Animate(appScrollState, lastScrollUpdate, now)
                      ELSE [s |-> appScrollState, last |-> lastScrollUpdate,
                            redraw |-> FALSE]
                draw == Elapsed(now, lastDisplayUpdate) > 1000 \/ aa.redraw \/ IndicatorRedraw
            IN
            /\ lastScrollUpdate' = aa.last
            /\ appScrollState' = IF draw /\ current >= 0
                                 THEN DisplayShowAppScroll(apps[current], aa.s)
                                 ELSE aa.s
            /\ lastDisplayUpdate' = IF draw THEN now ELSE lastDisplayUpdate
            /\ rendered' = IF ~draw THEN rendered
                           ELSE IF current >= 0 THEN [kind |-> "app", index |-> current]
                           ELSE [kind |-> "clock", index |-> -1]
            /\ lastOp' = [op |-> "loopDisplay", drew |-> draw]
            /\ DisplayShowAppIcon(apps, IF draw THEN current ELSE -1)
            /\ UNCHANGED << notifications, notifScrollState, lastNotifScrollUpdate >>
    /\ UNCHANGED << now, apps, appCount, currentAppIndex, lastAppSwitch,
                    appRotationEnabled, settings, notificationCount, currentNotifIndex,
                    savedAppIndex, rotationLog, notifSeq, notifMeta,
                    preemptedApp, mgmtOps >>
    /\ PhaseSinceUpdate
    /\ UNCHANGED savedApps
    /\ IndicatorsUpdate

\* delay(LOOP_DELAY) and whatever else lets millis() advance between passes
Delay(steps, maxTime) ==
    /\ pc = "delay"
    /\ pc' = "apps"
    /\ \E d \in steps : now + d <= maxTime /\ now' = now + d
    /\ lastOp' = [op |-> "delay"]
    /\ UNCHANGED << appVars, notifVars, iconVars, lastNotifScrollUpdate,
                    lastDisplayUpdate, rendered, phaseSince, rotationLog, notifSeq, notifMeta,
                    preemptedApp, mgmtOps >>
    /\ UNCHANGED savedApps
    /\ IndicatorsUpdate

-----------------------------------------------------------------------------
(* Management interface (web request handlers) *)

\* a timestamp after millis() has advanced by d, when the advance is taken
\* on the timestamps instead of on now: the code reads a timestamp x only
\* as now - x, and an age that has reached now stays there
Shifted(x, d) == IF x >= d THEN x - d ELSE 0

\* the same for displayedAt, where 0 stands for "not yet shown": a stamp
\* stays a stamp
ShiftedStamp(x, d) == IF x = 0 THEN 0 ELSE IF x > d THEN x - d ELSE 1

\* delay(LOOP_DELAY) for a run of unbounded length: time advances by d, now
\* keeps its value and every timestamp moves d into the past.  Exact as long
\* as now exceeds every interval an age is compared with (no icon is cached
\* where this step is used).
DelayShifted(d) ==
    /\ pc = "delay"
    /\ pc' = "apps"
    /\ apps' = [i \in AppSlots |-> [apps[i] EXCEPT !.createdAt = Shifted(@, d)]]
    /\ lastAppSwitch' = Shifted(lastAppSwitch, d)
    /\ appScrollState' = [appScrollState EXCEPT !.lastScrollTime = Shifted(@, d)]
    /\ notifScrollState' = [notifScrollState EXCEPT !.lastScrollTime = Shifted(@, d)]
    /\ lastScrollUpdate' = Shifted(lastScrollUpdate, d)
    /\ lastNotifScrollUpdate' = Shifted(lastNotifScrollUpdate, d)
    /\ lastDisplayUpdate' = Shifted(lastDisplayUpdate, d)
    /\ phaseSince' = [app |-> Shifted(phaseSince.app, d),
                      notif |-> Shifted(phaseSince.notif, d)]
    /\ notifications' = [i \in NotifSlots |->
                            [notifications[i] EXCEPT !.displayedAt = ShiftedStamp(@, d)]]
    /\ lastOp' = [op |-> "delay"]
    /\ UNCHANGED << now, appCount, currentAppIndex, appRotationEnabled, settings,
                    notificationCount, currentNotifIndex, savedAppIndex,
                    iconVars, rendered, rotationLog, notifSeq, notifMeta, preemptedApp,
                    mgmtOps >>
    /\ UNCHANGED savedApps
    /\ IndicatorsUpdate

\* POST /api/custom with a single-zone body, after parseTextFieldWithSegments
\* has turned "text" (field) into p = [text, segments]: appAdd(name,
\* parsedText, icon, textColor, duration, lifetime, priority, false), which
\* saves the table, and then the text segments and the label are written
\* into the slot.
ApiCustomParsed(id, field, p, label, icon, textColor, duration, lifetime, priority) ==
    LET r == AppAddOn(apps, appCount, id, p.text, icon, textColor, duration, lifetime, priority,
                      FALSE, settings.defaultDuration, now)
    IN
    /\ apps' = IF r.result >= 0
               THEN [r.apps EXCEPT ![r.result].textSegmentCount = Len(p.segments),
                                   ![r.result].textSegments = p.segments,
                                   ![r.result].label = Strlcpy(label, 32)]
               ELSE r.apps
    /\ UNCHANGED indicatorVars
    /\ savedApps' = IF r.result >= 0 /\ ~r.apps[IF r.result >= 0 THEN r.result ELSE 0].isSystem
                    THEN SaveApps(r.apps)
                    ELSE savedApps
    /\ appCount' = r.appCount
    /\ rotationLog' = IF ActiveSlots(r.apps) # ActiveSlots(apps) THEN << >> ELSE rotationLog
    /\ mgmtOps' = mgmtOps + 1
    /\ lastOp' = [op |-> "appAdd", id |-> id, result |-> r.result,
                  created |-> ActiveSlots(r.apps) # ActiveSlots(apps),
                  req |-> [text |-> p.text, icon |-> icon, textColor |-> textColor,
                           duration |-> duration, lifetime |-> lifetime,
                           priority |-> priority, segs |-> Len(p.segments),
                           label |-> label, field |-> field]]
    /\ UNCHANGED << now, pc, currentAppIndex, lastAppSwitch, appRotationEnabled,
                    settings, appScrollState, lastScrollUpdate, lastNotifScrollUpdate,
                    lastDisplayUpdate, notifVars, iconVars, rendered, phaseSince, notifSeq,
                    notifMeta, preemptedApp >>

\* POST /api/custom with "text" a plain string (segs = 0) or an object
\* {"text", "color"} whose colour is textColor (segs = 1)
ApiCustom(id, text, segs, label, icon, textColor, duration, lifetime, priority) ==
    ApiCustomParsed(id, text,
                    [text |-> text,
                     segments |-> [k \in 1..segs |-> [offset |-> 0, color |-> textColor]]],
                    label, icon, textColor, duration, lifetime, priority)

\* POST /api/custom with "text" a plain string and no "label"
AppAdd(id, text, icon, textColor, duration, lifetime, priority) ==
    ApiCustom(id, text, 0, << >>, icon, textColor, duration, lifetime, priority)

\* appSetZones, one element of the "zones" array stored as an AppZone
ZoneOf(z) ==
    [text |-> Strlcpy(z.text, 32), icon |-> Strlcpy(z.icon, 32),
     label |-> Strlcpy(z.label, 32), textColor |-> z.color]

\* appSetZones(appIndex, zonesArray): the table after the call; element 0
\* goes to the item's main fields, elements 1.. to zones[0..]
AppSetZones(tbl, appIndex, zonesArray) ==
    IF appIndex < 0 \/ appIndex >= MAX_APPS THEN tbl
    ELSE IF Len(zonesArray) % 256 < 2 \/ Len(zonesArray) % 256 > MAX_ZONES THEN tbl
    ELSE [tbl EXCEPT ![appIndex] =
             [@ EXCEPT !.zoneCount = Len(zonesArray) % 256,
                       !.icon = Strlcpy(zonesArray[1].icon, ICON_NAME_SIZE),
                       !.textColor = zonesArray[1].color,
                       !.text = Strlcpy(zonesArray[1].text, 64),
                       !.textSegmentCount = 0,
                       !.textSegments = << >>,
                       !.label = Strlcpy(zonesArray[1].label, 32),
                       !.zones = [i \in 1..(MAX_ZONES - 1) |->
                                    IF i < Len(zonesArray) % 256
                                    THEN ZoneOf(zonesArray[i + 1])
                                    ELSE @[i]]]]

\* POST /api/custom, the answer 400 "zones array must have 2, 3, or 4
\* elements": nothing is stored
ApiCustomRejected(id, zonesArray) ==
    /\ mgmtOps' = mgmtOps + 1
    /\ lastOp' = [op |-> "apiCustom", id |-> id, result |-> -1, created |-> FALSE,
                  status |-> 400, zones |-> zonesArray]
    /\ UNCHANGED << now, pc, apps, appCount, currentAppIndex, lastAppSwitch,
                    appRotationEnabled, settings, appScrollState, lastScrollUpdate,
                    lastNotifScrollUpdate, lastDisplayUpdate, notifVars, iconVars, rendered,
                    phaseSince, rotationLog, notifSeq, notifMeta, preemptedApp, savedApps >>
    /\ IndicatorsUpdate

\* POST /api/custom with a multi-zone body after appAdd(name, "", "",
\* 0xFFFFFF, duration, lifetime, priority, false) returned r: appSetZones
\* on the slot; both calls save the table of a non-system item
ApiCustomZoned(id, zonesArray, r) ==
    /\ apps' = IF r.result >= 0 THEN AppSetZones(r.apps, r.result, zonesArray) ELSE r.apps
    /\ UNCHANGED indicatorVars
    /\ savedApps' = IF r.result >= 0 /\ ~r.apps[IF r.result >= 0 THEN r.result ELSE 0].isSystem
                    THEN SaveApps(AppSetZones(r.apps, r.result, zonesArray))
                    ELSE savedApps
    /\ appCount' = r.appCount
    /\ rotationLog' = IF ActiveSlots(r.apps) # ActiveSlots(apps) THEN << >> ELSE rotationLog
    /\ mgmtOps' = mgmtOps + 1
    /\ lastOp' = [op |-> "appAdd", id |-> id, result |-> r.result,
                  created |-> ActiveSlots(r.apps) # ActiveSlots(apps),
                  status |-> IF r.result >= 0 THEN 200 ELSE 500, zones |-> zonesArray]
    /\ UNCHANGED << now, pc, currentAppIndex, lastAppSwitch, appRotationEnabled,
                    settings, appScrollState, lastScrollUpdate, lastNotifScrollUpdate,
                    lastDisplayUpdate, notifVars, iconVars, rendered, phaseSince, notifSeq,
                    notifMeta, preemptedApp >>

\* POST /api/custom whose body has a "zones" array and no "text", "icon",
\* "color" or "label": an empty array is a single-zone request, an array
\* of one or of more than MAX_ZONES elements is refused
ApiCustomZones(id, zonesArray, duration, lifetime, priority) ==
    IF Len(zonesArray) = 0
    THEN ApiCustomParsed(id, << >>, [text |-> << >>, segments |-> << >>], << >>, << >>,
                         White, duration, lifetime, priority)
    ELSE IF Len(zonesArray) % 256 = 1 \/ Len(zonesArray) % 256 > MAX_ZONES
    THEN ApiCustomRejected(id, zonesArray)
    ELSE ApiCustomZoned(id, zonesArray,
                        AppAddOn(apps, appCount, id, << >>, << >>, White, duration, lifetime,
                                 priority, FALSE, settings.defaultDuration, now))

\* POST /api/indicator<index + 1> with a "mode": indicatorOff for "off",
\* else indicatorSet(index, mode, color, blinkInterval, fadePeriod)
ApiIndicator(index, mode, color, blinkInterval, fadePeriod) ==
    /\ index < NUM_INDICATORS
    /\ indicators' = IF mode = "off" THEN IndicatorOff(indicators, index)
                     ELSE IndicatorSet(indicators, indicatorAnimState, index, mode, color,
                                       blinkInterval, fadePeriod, now).indicators
    /\ indicatorAnimState' = IF mode = "off" THEN indicatorAnimState
                             ELSE IndicatorSet(indicators, indicatorAnimState, index, mode,
                                               color, blinkInterval, fadePeriod, now).anim
    /\ mgmtOps' = mgmtOps + 1
    /\ lastOp' = [op |-> "indicatorSet", index |-> index, mode |-> mode]
    /\ UNCHANGED << now, pc, apps, appCount, currentAppIndex, lastAppSwitch,
                    appRotationEnabled, settings, appScrollState, lastScrollUpdate,
                    lastNotifScrollUpdate, lastDisplayUpdate, notifVars, iconVars, rendered,
                    phaseSince, rotationLog, notifSeq, notifMeta, preemptedApp, savedApps,
                    indicatorDrawn >>

\* mutant of AppRemove: the system flag is not looked at
AppRemove_AnyItem(id) ==
    LET index == AppFind(id)
        ok == index >= 0
    IN
    /\ apps' = IF ok THEN [apps EXCEPT ![index].active = FALSE] ELSE apps
    /\ UNCHANGED indicatorVars
    /\ savedApps' = IF ok THEN SaveApps([apps EXCEPT ![index].active = FALSE]) ELSE savedApps
    /\ appCount' = IF ok THEN (appCount - 1) % 256 ELSE appCount
    /\ currentAppIndex' = IF ok /\ currentAppIndex = index THEN -1 ELSE currentAppIndex
    /\ rotationLog' = IF ok THEN << >> ELSE rotationLog
    /\ mgmtOps' = mgmtOps + 1
    /\ lastOp' = [op |-> "appRemove", id |-> id, result |-> ok]
    /\ UNCHANGED << now, pc, lastAppSwitch, appRotationEnabled, settings, appScrollState,
                    lastScrollUpdate, lastNotifScrollUpdate, lastDisplayUpdate,
                    notifVars, iconVars, rendered, phaseSince, notifSeq, notifMeta, preemptedApp >>

\* DELETE /api/custom: appRemove(name)
AppRemove(id) ==
    LET index == AppFind(id)
        ok == index >= 0 /\ ~apps[IF index >= 0 THEN index ELSE 0].isSystem
    IN
    /\ apps' = IF ok THEN [apps EXCEPT ![index].active = FALSE] ELSE apps
    /\ UNCHANGED indicatorVars
    /\ savedApps' = IF ok THEN SaveApps([apps EXCEPT ![index].active = FALSE]) ELSE savedApps
    /\ appCount' = IF ok THEN (appCount - 1) % 256 ELSE appCount
    /\ currentAppIndex' = IF ok /\ currentAppIndex = index THEN -1 ELSE currentAppIndex
    /\ rotationLog' = IF ok THEN << >> ELSE rotationLog
    /\ mgmtOps' = mgmtOps + 1
    /\ lastOp' = [op |-> "appRemove", id |-> id, result |-> ok]
    /\ UNCHANGED << now, pc, lastAppSwitch, appRotationEnabled, settings, appScrollState,
                    lastScrollUpdate, lastNotifScrollUpdate, lastDisplayUpdate,
                    notifVars, iconVars, rendered, phaseSince, notifSeq, notifMeta, preemptedApp >>

\* POST /api/settings with autoRotate
SetAutoRotate(b) ==
    /\ appRotationEnabled' = b
    /\ mgmtOps' = mgmtOps + 1
    /\ lastOp' = [op |-> "setAutoRotate"]
    /\ UNCHANGED << now, pc, apps, appCount, currentAppIndex, lastAppSwitch,
                    settings, appScrollState, lastScrollUpdate, lastNotifScrollUpdate,
                    lastDisplayUpdate, notifVars, iconVars, rendered, phaseSince, rotationLog,
                    notifSeq, notifMeta, preemptedApp >>
    /\ UNCHANGED savedApps
    /\ IndicatorsUpdate

\* POST /api/notify: notifAdd(id, text, icon, color, background, duration, hold, urgent, stack)
NotifAdd(text, duration, hold, urgent, stack) ==
    LET r == NotifAddOn(NotifState, text, duration, hold, urgent, stack)
        ok == r.result >= 0
    IN
    /\ notifications' = r.q
    /\ notificationCount' = r.count
    /\ currentNotifIndex' = r.cur
    /\ notifSeq' = IF ok THEN notifSeq + 1 ELSE notifSeq
    /\ notifMeta' = IF ok
                    THEN [notifMeta EXCEPT ![r.result] =
                             [seq |-> notifSeq + 1, wasCurrent |-> r.cur = r.result]]
                    ELSE notifMeta
    /\ preemptedApp' = IF ok /\ r.cur = r.result /\ preemptedApp = -2
                       THEN currentAppIndex ELSE preemptedApp
    /\ mgmtOps' = mgmtOps + 1
    /\ lastOp' = [op |-> "notifAdd", result |-> r.result, hold |-> hold,
                  urgent |-> urgent, stack |-> stack]
    /\ UNCHANGED << now, pc, appVars, lastNotifScrollUpdate, lastDisplayUpdate,
                    savedAppIndex, notifScrollState, iconVars, rendered, phaseSince, rotationLog >>
    /\ UNCHANGED savedApps
    /\ IndicatorsUpdate

\* POST /api/notify/dismiss: notifDismiss(), then resetNotifScrollState()
ApiNotifDismiss ==
    LET d == NotifDismiss(NotifState)
        ok == NotifGetCurrent(NotifState) >= 0
    IN
    /\ notifications' = d.q
    /\ notificationCount' = d.count
    /\ currentNotifIndex' = d.cur
    /\ notifScrollState' = IF ok THEN ResetNotifScrollState(now) ELSE notifScrollState
    /\ mgmtOps' = mgmtOps + 1
    /\ lastOp' = [op |-> "notifDismiss", result |-> ok]
    /\ UNCHANGED << now, pc, appVars, lastNotifScrollUpdate, lastDisplayUpdate,
                    savedAppIndex, iconVars, rendered, rotationLog, notifSeq,
                    notifMeta, preemptedApp >>
    /\ PhaseSinceUpdate
    /\ UNCHANGED savedApps
    /\ IndicatorsUpdate

\* the file DELETE /api/icons removes: the PNG if there is one, else the GIF
DeletedFiles(files, name) ==
    IF HasPng(files, name)
    THEN {f \in files : f.name = name /\ f.ext = "png"}
    ELSE {f \in files : f.name = name /\ f.ext = "gif"}

\* DELETE /api/icons (handleApiIconsDelete): invalidateCachedIcon, then the
\* file is removed
ApiIconsDelete(name) ==
    /\ iconCache' = InvalidateCachedIcon(iconCache, heap, name).cache
    /\ heap' = InvalidateCachedIcon(iconCache, heap, name).heap
    /\ iconFiles' = iconFiles \ DeletedFiles(iconFiles, name)
    /\ mgmtOps' = mgmtOps + 1
    /\ lastOp' = [op |-> "iconsDelete", name |-> name]
    /\ UNCHANGED << now, pc, appVars, notifVars, lastNotifScrollUpdate,
                    lastDisplayUpdate, failedIconDownloads, remoteIcons, layout,
                    fetchLog, iconOp, rendered, phaseSince, rotationLog, notifSeq, notifMeta,
                    preemptedApp >>
    /\ UNCHANGED savedApps
    /\ IndicatorsUpdate

\* POST /api/icons?name=... (upload handler) with a PNG that arrives in one
\* chunk: the header is validated, the file is written over the old one and
\* invalidateCachedIcon runs on the final chunk
ApiIconsUpload(name, file) ==
    /\ file.hdr
    /\ iconFiles' = SaveFile(iconFiles, name, file)
    /\ iconCache' = InvalidateCachedIcon(iconCache, heap, name).cache
    /\ heap' = InvalidateCachedIcon(iconCache, heap, name).heap
    /\ mgmtOps' = mgmtOps + 1
    /\ lastOp' = [op |-> "iconsUpload", name |-> name]
    /\ UNCHANGED << now, pc, appVars, notifVars, lastNotifScrollUpdate,
                    lastDisplayUpdate, failedIconDownloads, remoteIcons, layout,
                    fetchLog, iconOp, rendered, phaseSince, rotationLog, notifSeq, notifMeta,
                    preemptedApp >>
    /\ UNCHANGED savedApps
    /\ IndicatorsUpdate

-----------------------------------------------------------------------------
(* State after setup(): notifInit, initIconCache, setupApps *)

\* setupApps: the table holds the system item "weatherclock" in slot 0
SetupApps(defaultDuration, t) ==
    AppAddOn([i \in AppSlots |-> EmptyApp], 0, WeatherClockId, WeatherClockText,
             << >>, White, defaultDuration, 0, 1, TRUE, defaultDuration, t)

EmptyIcon == [name |-> <<>>, pixels |-> 0, width |-> 0, height |-> 0,
              valid |-> FALSE, lastUsed |-> 0]

EmptyFailed == [name |-> <<>>, failedAt |-> 0]

InitAt(bootTimes, defaultDurations, stores, servers) ==
    /\ now \in bootTimes
    /\ pc = "apps"
    /\ settings \in [defaultDuration : defaultDurations]
    /\ apps = SetupApps(settings.defaultDuration, now).apps
    /\ appCount = SetupApps(settings.defaultDuration, now).appCount
    /\ currentAppIndex = -1
    /\ lastAppSwitch = 0
    /\ appRotationEnabled = TRUE
    /\ appScrollState = ZeroScrollState
    /\ lastScrollUpdate = 0
    /\ lastNotifScrollUpdate = 0
    /\ lastDisplayUpdate = 0
    /\ notifications = [i \in NotifSlots |-> EmptyNotif]
    /\ notificationCount = 0
    /\ currentNotifIndex = -1
    /\ savedAppIndex = -1
    /\ notifScrollState = ZeroScrollState
    /\ iconCache = [i \in 0..(MAX_ICON_CACHE - 1) |-> EmptyIcon]
    /\ failedIconDownloads = [i \in 0..(MAX_FAILED_ICON_DOWNLOADS - 1) |-> EmptyFailed]
    /\ heap = EmptyHeap
    /\ iconFiles \in stores
    /\ remoteIcons \in servers
    /\ layout = [textYPos |-> -1, zones |-> << >>]
    /\ iconOp = NoIconOp
    /\ rendered = [kind |-> "none", index |-> -1]
    /\ lastOp = [op |-> "setup"]
    /\ rotationLog = << >>
    /\ notifSeq = 0
    /\ notifMeta = [i \in NotifSlots |-> [seq |-> 0, wasCurrent |-> FALSE]]
    /\ preemptedApp = -2
    /\ fetchLog = << >>
    /\ mgmtOps = 0
    /\ phaseSince = [app |-> 0, notif |-> 0]
    /\ savedApps = << >>
    /\ indicators = IndicatorInit.indicators
    /\ indicatorAnimState = IndicatorInit.anim
    /\ indicatorDrawn = [i \in IndicatorSlots |-> NotLit]

-----------------------------------------------------------------------------
(* SpecApps: the app table and its rotation, no notification ever queued *)

MaxTimeApps == 10000

MaxAppsOps == 3

AppsBootTimes == {3000}

AppsTickSteps == {1000}

\* <<id, duration, lifetime>> of the create/update requests
AppsRequests == {<<IdA, 1000, 0>>, <<IdB, 2000, 0>>, <<WeatherClockId, 1000, 1000>>}

AppsRemovals == {IdA, IdB}

InitApps == InitAt(AppsBootTimes, {1000}, {{}}, {{}})

NextApps ==
    \/ \E r \in AppsRequests :
          mgmtOps < MaxAppsOps /\ AppAdd(r[1], ShortText, << >>, White, r[2], r[3], 0)
    \/ \E id \in AppsRemovals : mgmtOps < MaxAppsOps /\ AppRemove(id)
    \/ LoopApps
    \/ LoopDisplay
    \/ Delay(AppsTickSteps, MaxTimeApps)

SpecApps == InitApps /\ [][NextApps]_vars

-----------------------------------------------------------------------------
(* SpecTable: the app table under requests whose identifier is longer      *)
(* than the id field stores                                                 *)

MaxTimeTable == 5000

MaxTableOps == 3

\* the longest identifier the id field stores unchanged
LongIdPrefix == SubSeq(LongId, 1, APP_ID_SIZE - 1)

TableRequests == {<<LongId, 1000, 0>>, <<LongIdPrefix, 1000, 0>>, <<IdA, 1000, 1000>>}

TableRemovals == {LongId, LongIdPrefix, IdA}

InitTable == InitAt({3000}, {1000}, {{}}, {{}})

NextTable ==
    \/ \E r \in TableRequests :
          mgmtOps < MaxTableOps /\ AppAdd(r[1], ShortText, << >>, White, r[2], r[3], 0)
    \/ \E id \in TableRemovals : mgmtOps < MaxTableOps /\ AppRemove(id)
    \/ LoopApps
    \/ LoopDisplay
    \/ Delay({2000}, MaxTimeTable)

SpecTable == InitTable /\ [][NextTable]_vars

-----------------------------------------------------------------------------
(* SpecNotif: the notification queue under arrivals with every combination *)
(* of hold, urgent and stack, dismissals and ticks                          *)

MaxTimeNotif == 6000

MaxNotifOps == 3

NotifDurations == {1000}

InitNotif == InitAt({3000}, {1000}, {{}}, {{}})

NextNotif ==
    \/ \E d \in NotifDurations : \E hold, urgent, stack \in BOOLEAN :
          mgmtOps < MaxNotifOps /\ NotifAdd(ShortText, d, hold, urgent, stack)
    \/ mgmtOps < MaxNotifOps /\ ApiNotifDismiss
    \/ LoopApps
    \/ LoopDisplay
    \/ Delay({1000}, MaxTimeNotif)

SpecNotif == InitNotif /\ [][NextNotif]_vars

-----------------------------------------------------------------------------
(* SpecPreempt: item a with a scrolling text, preempted by notifications   *)
(* of 3000 ms, urgent or not                                               *)

MaxTimePreempt == 15000

MaxPreemptOps == 3

InitPreempt == InitAt({3000}, {1000}, {{}}, {{}})

NextPreempt ==
    \/ mgmtOps = 0 /\ AppAdd(IdA, LongText, << >>, White, 10000, 0, 0)
    \/ \E urgent \in BOOLEAN :
          /\ mgmtOps > 0 /\ mgmtOps < MaxPreemptOps
          /\ NotifAdd(ShortText, 3000, FALSE, urgent, TRUE)
    \/ mgmtOps > 0 /\ mgmtOps < MaxPreemptOps /\ ApiNotifDismiss
    \/ LoopApps
    \/ LoopDisplay
    \/ Delay({1000}, MaxTimePreempt)

SpecPreempt == InitPreempt /\ [][NextPreempt]_vars

-----------------------------------------------------------------------------
(* SpecIcon: one item whose icon is changed by update requests among the   *)
(* bitmaps of the icon store, so that its renders fill and overflow the    *)
(* icon cache                                                               *)

MaxTimeIcon == 23000

MaxIconOps == 11

\* the icon store holds ten bitmaps "i0" .. "i9", 8x8 and 16x16
LocalNames ==
    << <<"i", "0">>, <<"i", "1">>, <<"i", "2">>, <<"i", "3">>, <<"i", "4">>,
       <<"i", "5">>, <<"i", "6">>, <<"i", "7">>, <<"i", "8">>, <<"i", "9">> >>

LocalStore ==
    {[name |-> LocalNames[k], ext |-> "png", size |-> IF k % 2 = 0 THEN 8 ELSE 16,
      hdr |-> TRUE, ok |-> TRUE] : k \in 1..Len(LocalNames)}

CachedNames == {iconCache[i].name : i \in {j \in IconSlots : iconCache[j].valid}}

\* the icon of item a, none before a exists
IconOfA == IF AppFind(IdA) >= 0 THEN apps[AppFind(IdA)].icon ELSE << >>

\* Icon names are interchangeable, so a request names either the first
\* bitmap of the store that is not cached or, once the cache is full, any
\* cached bitmap; it always changes the icon of the item.
IconRequests ==
    LET fresh == {k \in 1..Len(LocalNames) :
                     /\ HasPng(iconFiles, LocalNames[k])
                     /\ LocalNames[k] \notin CachedNames}
    IN
    ((IF fresh = {} THEN {} ELSE {LocalNames[FirstIn(fresh)]})
        \cup (IF \A i \in IconSlots : iconCache[i].valid THEN CachedNames ELSE {}))
      \ {IconOfA}

InitIcon == InitAt({3000}, {1000}, {LocalStore}, {{}})

\* requests are served between two passes of loop(); a bitmap is deleted
\* while it is in the store
NextIcon ==
    \/ \E n \in IconRequests :
          /\ mgmtOps < MaxIconOps /\ pc = "apps"
          /\ AppAdd(IdA, ShortText, n, White, 60000, 0, 0)
    \/ /\ mgmtOps < MaxIconOps /\ pc = "apps"
       /\ HasPng(iconFiles, LocalNames[2])
       /\ ApiIconsDelete(LocalNames[2])
    \/ LoopApps
    \/ LoopDisplay
    \/ Delay({2000}, MaxTimeIcon)

SpecIcon == InitIcon /\ [][NextIcon]_vars

-----------------------------------------------------------------------------
(* SpecFetch: one item whose icon is changed among remote-convention names *)
(* that the icon server does not have, so that every download fails        *)

MaxTimeFetch == 23000

MaxFetchOps == 10

RemoteNames ==
    << <<"l", "m", "_", "1">>, <<"l", "m", "_", "2">>, <<"l", "m", "_", "3">>,
       <<"l", "m", "_", "4">>, <<"l", "m", "_", "5">>, <<"l", "m", "_", "6">>,
       <<"l", "m", "_", "7">>, <<"l", "m", "_", "8">>, <<"l", "m", "_", "9">>,
       <<"l", "m", "_", "1", "0">> >>

FailedNames == {fetchLog[k].name : k \in 1..Len(fetchLog)}

\* Icon names are interchangeable, so a request names either the first name
\* whose download has not failed yet or the first name of all; it always
\* changes the icon of the item.
FetchRequests ==
    LET fresh == {k \in 1..Len(RemoteNames) : RemoteNames[k] \notin FailedNames} IN
    ((IF fresh = {} THEN {} ELSE {RemoteNames[FirstIn(fresh)]}) \cup {RemoteNames[1]})
      \ {IconOfA}

InitFetch == InitAt({3000}, {1000}, {{}}, {{}})

\* requests are served between two passes of loop()
NextFetch ==
    \/ \E n \in FetchRequests :
          /\ mgmtOps < MaxFetchOps /\ pc = "apps"
          /\ AppAdd(IdA, ShortText, n, White, 60000, 0, 0)
    \/ LoopApps
    \/ LoopDisplay
    \/ Delay({2000}, MaxTimeFetch)

SpecFetch == InitFetch /\ [][NextFetch]_vars

-----------------------------------------------------------------------------
(* SpecMiss: one item whose icon names a bitmap of the store, a bitmap of  *)
(* the icon server, or neither                                              *)

MaxTimeMiss == 11000

MaxMissOps == 3

\* names that are no bitmap of the store and no remote-convention name
PlainName == <<"w", "s">>

PrefixOnly == <<"l", "m", "_">>

PrefixLetter == <<"l", "m", "_", "x">>

DigitsLetter == <<"l", "m", "_", "1", "x">>

MissNames == {PlainName, PrefixOnly, PrefixLetter, DigitsLetter}

MissStores == {{[name |-> LocalNames[1], ext |-> "png", size |-> 8, hdr |-> TRUE, ok |-> TRUE]}}

MissServers ==
    { {},
      {[id |-> 1, ext |-> "png", size |-> 16, hdr |-> TRUE, ok |-> TRUE]},
      {[id |-> 1, ext |-> "gif", size |-> 8, hdr |-> TRUE, ok |-> TRUE]} }

InitMiss == InitAt({3000}, {1000}, MissStores, MissServers)

NextMiss ==
    \/ \E n \in MissNames \cup {LocalNames[1], RemoteNames[1]} :
          /\ mgmtOps < MaxMissOps /\ pc = "apps" /\ n # IconOfA
          /\ AppAdd(IdA, ShortText, n, White, 60000, 0, 0)
    \/ /\ mgmtOps < MaxMissOps /\ pc = "apps"
       /\ ApiIconsDelete(LocalNames[1])
    \/ LoopApps
    \/ LoopDisplay
    \/ Delay({2000}, MaxTimeMiss)

SpecMiss == InitMiss /\ [][NextMiss]_vars

-----------------------------------------------------------------------------
(* SpecHeap: SpecIcon with two bitmaps the decoder rejects, one at its     *)
(* header and one while decoding, and with the upload of a new version of  *)
(* a bitmap                                                                 *)

MaxTimeHeap == 23000

MaxHeapOps == 11

BadHeader == <<"b", "h">>

BadDecode == <<"b", "d">>

HeapStore ==
    LocalStore \cup
      {[name |-> BadHeader, ext |-> "png", size |-> 8, hdr |-> FALSE, ok |-> FALSE],
       [name |-> BadDecode, ext |-> "png", size |-> 8, hdr |-> TRUE, ok |-> FALSE]}

\* the new version of a bitmap
NewVersion == [ext |-> "png", size |-> 32, hdr |-> TRUE, ok |-> TRUE]

\* A request names the first good bitmap of the store that is not cached
\* or, while one slot or every slot is valid, a bitmap the decoder rejects.
HeapRequests ==
    LET fresh == {k \in 1..Len(LocalNames) :
                     /\ HasPng(iconFiles, LocalNames[k])
                     /\ LocalNames[k] \notin CachedNames}
    IN
    ((IF fresh = {} THEN {} ELSE {LocalNames[FirstIn(fresh)]})
        \cup (IF Cardinality(CachedNames) \in {1, MAX_ICON_CACHE}
              THEN {BadHeader, BadDecode}
              ELSE {}))
      \ {IconOfA}

\* at most one request is served between two passes of loop()
HeapIdle == pc = "apps" /\ lastOp.op \in {"setup", "delay"} /\ mgmtOps < MaxHeapOps

InitHeap == InitAt({3000}, {1000}, {HeapStore}, {{}})

NextHeap ==
    \/ \E n \in HeapRequests :
          /\ HeapIdle
          /\ AppAdd(IdA, ShortText, n, White, 60000, 0, 0)
    \/ /\ HeapIdle
       /\ HasPng(iconFiles, LocalNames[2])
       /\ ApiIconsDelete(LocalNames[2])
    \/ /\ HeapIdle
       /\ LocalNames[1] \in CachedNames
       /\ PngOf(iconFiles, LocalNames[1]).size # NewVersion.size
       /\ ApiIconsUpload(LocalNames[1], NewVersion)
    \/ LoopApps
    \/ LoopDisplay
    \/ Delay({2000}, MaxTimeHeap)

SpecHeap == InitHeap /\ [][NextHeap]_vars

-----------------------------------------------------------------------------
(* SpecScroll: item a, whose text is replaced while it is on the display   *)

MaxTimeScroll == 36000

MaxScrollOps == 3

\* 66 pixels: six wider than the text area, the scroll ends at offset 16
WideText == Str(11, "t")

ScrollTexts == {ShortText, WideText, LongText}

ScrollIdle == pc = "apps" /\ lastOp.op \in {"setup", "delay"} /\ mgmtOps < MaxScrollOps

InitScroll == InitAt({3000}, {1000}, {{}}, {{}})

NextScroll ==
    \/ \E text \in ScrollTexts :
          /\ ScrollIdle
          /\ AppFind(IdA) >= 0 => apps[AppFind(IdA)].text # text
          /\ AppAdd(IdA, text, << >>, White, 60000, 0, 0)
    \/ LoopApps
    \/ LoopDisplay
    \/ Delay({1000}, MaxTimeScroll)

SpecScroll == InitScroll /\ [][NextScroll]_vars

-----------------------------------------------------------------------------
(* SpecRetext: both scroll surfaces over the first seconds of a scroll.    *)
(* Item a and held notifications get their texts replaced; while a         *)
(* notification is on the display the next one arrives urgent, or the      *)
(* shown one is dismissed                                                  *)

MaxTimeRetext == 13000

MaxRetextOps == 3

RetextIdle == pc = "apps" /\ lastOp.op \in {"setup", "delay"} /\ mgmtOps < MaxRetextOps

InitRetext == InitAt({3000}, {1000}, {{}}, {{}})

NextRetext ==
    \/ \E text \in ScrollTexts :
          /\ RetextIdle
          /\ AppFind(IdA) >= 0 => apps[AppFind(IdA)].text # text
          /\ AppAdd(IdA, text, << >>, White, 60000, 0, 0)
    \/ \E text \in ScrollTexts :
          /\ RetextIdle
          /\ NotifAdd(text, 5000, TRUE, NotifGetCurrent(NotifState) >= 0, TRUE)
    \/ /\ RetextIdle
       /\ NotifGetCurrent(NotifState) >= 0
       /\ ApiNotifDismiss
    \/ LoopApps
    \/ LoopDisplay
    \/ Delay({1000}, MaxTimeRetext)

SpecRetext == InitRetext /\ [][NextRetext]_vars

-----------------------------------------------------------------------------
(* SpecManage: items created, updated with other field values and removed, *)
(* the system item included                                                *)

MaxTimeManage == 8000

MaxManageOps == 3

\* 0xFF0000
Red == 16711680

\* the create/update requests: a plain item a, an update of a that changes
\* every field (with "duration": 0 and "priority": 100), a second item b and
\* a request that names the system item
ManageRequests ==
    {[id |-> IdA, text |-> ShortText, icon |-> << >>, textColor |-> White,
      duration |-> 1000, lifetime |-> 0, priority |-> 0],
     [id |-> IdA, text |-> LongText, icon |-> PlainName, textColor |-> Red,
      duration |-> 0, lifetime |-> 2000, priority |-> 100],
     [id |-> IdB, text |-> ShortText, icon |-> << >>, textColor |-> White,
      duration |-> 2000, lifetime |-> 0, priority |-> 0],
     [id |-> WeatherClockId, text |-> ShortText, icon |-> << >>, textColor |-> Red,
      duration |-> 1000, lifetime |-> 0, priority |-> 0]}

ManageRemovals == {IdA, IdB, WeatherClockId}

InitManage == InitAt({3000}, {1000}, {{}}, {{}})

NextManage ==
    \/ \E r \in ManageRequests :
          /\ mgmtOps < MaxManageOps
          /\ AppAdd(r.id, r.text, r.icon, r.textColor, r.duration, r.lifetime, r.priority)
    \/ \E id \in ManageRemovals : mgmtOps < MaxManageOps /\ AppRemove(id)
    \/ LoopApps
    \/ LoopDisplay
    \/ Delay({1000}, MaxTimeManage)

SpecManage == InitManage /\ [][NextManage]_vars

-----------------------------------------------------------------------------
(* SpecFull: before the first pass of loop(), requests with ever new       *)
(* identifiers and held notifications arrive, up to 16 active items and 10 *)
(* active notifications; later requests arrive only when the table or the  *)
(* queue is full, or right after a removal or a dismissal has freed a slot *)

MaxTimeFull == 5000

MaxFullOps == 29

\* the identifiers "x", "xx", ...
FillId(k) == Str(k, "x")

\* the shortest of them that no active item has
FreshId == FillId(FirstIn({k \in 1..MAX_APPS : AppFind(FillId(k)) < 0}))

TableFull == \A i \in AppSlots : apps[i].active

QueueFull == \A i \in NotifSlots : notifications[i].active

Filling == pc = "apps" /\ lastOp.op \in {"setup", "appAdd", "notifAdd"} /\ now = 3000

InitFull == InitAt({3000}, {1000}, {{}}, {{}})

NextFull ==
    \/ /\ mgmtOps < MaxFullOps
       /\ Filling \/ TableFull \/ lastOp.op = "appRemove"
       /\ AppAdd(FreshId, ShortText, << >>, White, 1000, 0, 0)
    \/ \E urgent \in BOOLEAN :
          /\ mgmtOps < MaxFullOps
          /\ Filling \/ QueueFull \/ lastOp.op = "notifDismiss"
          /\ urgent => QueueFull
          /\ NotifAdd(ShortText, 5000, TRUE, urgent, TRUE)
    \/ mgmtOps < MaxFullOps /\ TableFull /\ AppRemove(FillId(1))
    \/ mgmtOps < MaxFullOps /\ QueueFull /\ ApiNotifDismiss
    \/ LoopApps
    \/ LoopDisplay
    \/ Delay({1000}, MaxTimeFull)

SpecFull == InitFull /\ [][NextFull]_vars

-----------------------------------------------------------------------------
(* SpecExpiry: items with and without a lifetime, rotation switched off    *)
(* and on, in a run of loop() that never stops                             *)

\* millis() at the first pass of loop(): more than every duration, lifetime
\* and pause of this specification
ExpiryBoot == 4000

MaxExpiryOps == 2

\* <<id, duration, lifetime>> of the create/update requests
ExpiryRequests ==
    {<<IdA, 1000, 0>>, <<IdA, 2000, 3000>>, <<WeatherClockId, 1000, 2000>>}

InitExpiry == InitAt({ExpiryBoot}, {1000}, {{}}, {{}})

NextExpiry ==
    \/ \E r \in ExpiryRequests :
          mgmtOps < MaxExpiryOps /\ AppAdd(r[1], ShortText, << >>, White, r[2], r[3], 0)
    \/ mgmtOps < MaxExpiryOps /\ SetAutoRotate(~appRotationEnabled)
    \/ LoopApps
    \/ LoopDisplay
    \/ DelayShifted(1000)

\* loop() is called again and again: weak fairness of its three parts.
\* LoopApps is enabled exactly where pc = "apps" and is the only step that
\* leaves that position, so its weak fairness is written on pc.
SpecExpiry ==
    /\ InitExpiry
    /\ [][NextExpiry]_vars
    /\ []<>(pc # "apps")
    /\ WF_vars(LoopDisplay)
    /\ WF_vars(DelayShifted(1000))

-----------------------------------------------------------------------------
(* SpecPass: items and notifications together.  Item a comes and goes, the *)
(* system item is given a lifetime, notifications of 1000 ms arrive urgent *)
(* or not, stacked or not, and are dismissed                               *)

MaxTimePass == 8000

MaxPassOps == 3

InitPass == InitAt({3000}, {1000}, {{}}, {{}})

NextPass ==
    \/ mgmtOps < MaxPassOps /\ AppAdd(IdA, ShortText, << >>, White, 2000, 0, 0)
    \/ mgmtOps < MaxPassOps /\ AppAdd(WeatherClockId, ShortText, << >>, White, 1000, 1000, 0)
    \/ mgmtOps < MaxPassOps /\ AppRemove(IdA)
    \/ \E urgent, stack \in BOOLEAN :
          mgmtOps < MaxPassOps /\ NotifAdd(ShortText, 1000, FALSE, urgent, stack)
    \/ mgmtOps < MaxPassOps /\ ApiNotifDismiss
    \/ LoopApps
    \/ LoopDisplay
    \/ Delay({1000}, MaxTimePass)

SpecPass == InitPass /\ [][NextPass]_vars

-----------------------------------------------------------------------------
(* SpecPersist: custom items created, updated and removed, with and        *)
(* without a label and colour segments, with and without a lifetime        *)

MaxTimePersist == 7000

MaxPersistOps == 3

Label == <<"l", "b">>

\* <<id, segs, label, lifetime>> of the create/update requests
PersistRequests ==
    {<<IdA, 0, << >>, 0>>, <<IdA, 1, Label, 0>>, <<IdB, 0, << >>, 1000>>,
     <<WeatherClockId, 0, << >>, 0>>}

InitPersist == InitAt({3000}, {1000}, {{}}, {{}})

NextPersist ==
    \/ \E r \in PersistRequests :
          /\ mgmtOps < MaxPersistOps
          /\ ApiCustom(r[1], ShortText, r[2], r[3], << >>, White, 1000, r[4], 0)
    \/ \E id \in {IdA, IdB} : mgmtOps < MaxPersistOps /\ AppRemove(id)
    \/ LoopApps
    \/ LoopDisplay
    \/ Delay({1000}, MaxTimePersist)

SpecPersist == InitPersist /\ [][NextPersist]_vars

-----------------------------------------------------------------------------
(* SpecQueue: notifications of 3000 ms with a scrolling text arrive one    *)
(* per pass, urgent or not, on top of those already queued; the shown one  *)
(* may be dismissed                                                         *)

MaxTimeQueue == 12000

MaxQueueOps == 4

QueueIdle == pc = "apps" /\ lastOp.op \in {"setup", "delay"} /\ mgmtOps < MaxQueueOps

InitQueue == InitAt({3000}, {1000}, {{}}, {{}})

NextQueue ==
    \/ \E urgent \in BOOLEAN :
          QueueIdle /\ NotifAdd(LongText, 3000, FALSE, urgent, TRUE)
    \/ QueueIdle /\ NotifGetCurrent(NotifState) >= 0 /\ ApiNotifDismiss
    \/ LoopApps
    \/ LoopDisplay
    \/ Delay({1000}, MaxTimeQueue)

SpecQueue == InitQueue /\ [][NextQueue]_vars

-----------------------------------------------------------------------------
(* SpecLive: notifications of 1000 ms, urgent or not, none of them held,   *)
(* in a run of loop() that never stops                                     *)

\* millis() at the first pass of loop(): more than every duration and
\* pause of this specification
LiveBoot == 4000

MaxLiveOps == 3

InitLive == InitAt({LiveBoot}, {1000}, {{}}, {{}})

NextLive ==
    \/ \E urgent \in BOOLEAN :
          mgmtOps < MaxLiveOps /\ NotifAdd(ShortText, 1000, FALSE, urgent, TRUE)
    \/ LoopApps
    \/ LoopDisplay
    \/ DelayShifted(1000)

\* loop() is called again and again (weak fairness of its three parts, that
\* of LoopApps written on pc as in SpecExpiry)
SpecLive ==
    /\ InitLive
    /\ [][NextLive]_vars
    /\ []<>(pc # "apps")
    /\ WF_vars(LoopDisplay)
    /\ WF_vars(DelayShifted(1000))

-----------------------------------------------------------------------------
(* SpecSegments: item a is given texts made of up to three coloured        *)
(* segments                                                                 *)

MaxTimeSegments == 5000

MaxSegmentOps == 1

MaxSegments == 3

Accented == <<"C3", "A9">>

\* the "t" of a segment: empty, one letter, one accented letter, one byte
\* that is not printable, two letters
SegmentTexts == {<< >>, <<"a">>, Accented, <<"01">>, <<"a", "b">>}

\* the arrays [{"t", "c"}, ...] of a request: segment k has colour k
SegmentArrays ==
    UNION {[1..n -> SegmentTexts] : n \in 1..MaxSegments}

Coloured(ts) == [k \in 1..Len(ts) |-> [t |-> ts[k], c |-> k]]

\* POST /api/custom with "text" an array of segments
ApiCustomArray(id, arr) ==
    ApiCustomParsed(id, arr, ParseTextFieldWithSegments(arr, 64, White),
                    << >>, << >>, White, 1000, 0, 0)

InitSegments == InitAt({3000}, {1000}, {{}}, {{}})

NextSegments ==
    \/ \E ts \in SegmentArrays :
          /\ mgmtOps < MaxSegmentOps /\ pc = "apps"
          /\ ApiCustomArray(IdA, Coloured(ts))
    \/ LoopApps
    \/ LoopDisplay
    \/ Delay({1000}, MaxTimeSegments)

SpecSegments == InitSegments /\ [][NextSegments]_vars

-----------------------------------------------------------------------------
(* Multi-zone items: requests with a "zones" array of 0 to MaxZoneLen      *)
(* elements for a custom item and for the system item, rendered by the     *)
(* loop.                                                                    *)

MaxTimeZones == 8000

MaxZoneOps == 2

MaxZoneLen == 5

\* element k of a "zones" array: short texts without icon ("a"), or texts
\* wider than any zone with a label and, in the second zone, an icon of
\* the store ("b")
ZoneObject(k, v) ==
    [text |-> IF v = "a" THEN << "a", ToString(k) >> ELSE << ToString(k) >> \o Str(11, "b"),
     icon |-> IF v = "b" /\ k = 2 THEN LocalNames[1] ELSE << >>,
     label |-> IF v = "b" THEN << "l" >> ELSE << >>,
     color |-> k]

ZoneArrays == {[k \in 1..n |-> ZoneObject(k, v)] : n \in 0..MaxZoneLen, v \in {"a", "b"}}

InitZones == InitAt({3000}, {1000}, {LocalStore}, {{}})

\* requests are served between two passes of loop()
NextZones ==
    \/ \E id \in {IdA, WeatherClockId}, za \in ZoneArrays :
          /\ mgmtOps < MaxZoneOps /\ pc = "apps"
          /\ ApiCustomZones(id, za, 1000, 0, 0)
    \/ LoopApps
    \/ LoopDisplay
    \/ Delay({1000}, MaxTimeZones)

SpecZones == InitZones /\ [][NextZones]_vars

-----------------------------------------------------------------------------
(* Fading indicator: the first indicator is put in fade mode with one of   *)
(* the periods of FadePeriods (or made to blink, or turned off) and the    *)
(* loop renders every 60 or 76 ms.                                          *)

MaxTimeFade == 3700

MaxFadeOps == 1

FadePeriods == {1, 2, 51, 100, 1000}

InitFade == InitAt({3000}, {1000}, {{}}, {{}})

\* requests are served between two passes of loop()
NextFade ==
    \/ \E P \in FadePeriods :
          /\ mgmtOps < MaxFadeOps /\ pc = "apps"
          /\ ApiIndicator(0, "fade", Red, 0, P)
    \/ \E mode \in {"blink", "off"} :
          /\ mgmtOps < MaxFadeOps /\ pc = "apps"
          /\ ApiIndicator(0, mode, Red, 100, 0)
    \/ LoopApps
    \/ LoopDisplay
    \/ Delay({60, 76}, MaxTimeFade)

SpecFade == InitFade /\ [][NextFade]_vars

-----------------------------------------------------------------------------
(* SpecRace: loop() with the notification part of loopApps in two steps,   *)
(* and notification requests served by the web server task at any point    *)

MaxTimeRace == 8000

MaxRaceOps == 3

InitRace == InitAt({3000}, {1000}, {{}}, {{}})

NextRace ==
    \/ \E urgent, stack \in BOOLEAN :
          mgmtOps < MaxRaceOps /\ NotifAdd(ShortText, 1000, FALSE, urgent, stack)
    \/ mgmtOps < MaxRaceOps /\ ApiNotifDismiss
    \/ LoopAppsTest
    \/ LoopAppsResume
    \/ ~LoopAppsFindsExpired /\ LoopApps
    \/ LoopDisplay
    \/ Delay({1000}, MaxTimeRace)

SpecRace == InitRace /\ [][NextRace]_vars

-----------------------------------------------------------------------------
(* Claims about the app table and its rotation *)

NoDuplicates(seq) ==
    \A i, j \in 1..Len(seq) : i # j => seq[i] # seq[j]

\* C1: the number of active items never exceeds MAX_APPS and no two active
\* slots hold the same stored identifier.
C1_CapacityAndUniqueIds ==
    /\ Cardinality(ActiveSlots(apps)) <= MAX_APPS
    /\ appCount <= MAX_APPS
    /\ \A i, j \in ActiveSlots(apps) : i # j => apps[i].id # apps[j].id

\* C2: over an unchanged set of k active items, the slots made current by
\* up to k consecutive rotation advances are active and pairwise distinct,
\* so k advances make every active item current exactly once.
C2_RoundRobin ==
    /\ Len(rotationLog) <= Cardinality(ActiveSlots(apps))
    /\ \A i \in 1..Len(rotationLog) : rotationLog[i] \in ActiveSlots(apps)
    /\ NoDuplicates(rotationLog)
    /\ (lastOp.op = "loopApps" /\ lastOp.advanced) =>
          (rotationLog # << >> /\ rotationLog[Len(rotationLog)] = currentAppIndex)

\* a full cycle over three items that do not sit in adjacent slots from 0
C2_Witness ==
    /\ Cardinality(ActiveSlots(apps)) >= 2
    /\ Len(rotationLog) = Cardinality(ActiveSlots(apps))
    /\ \E i \in AppSlots : ~apps[i].active /\ \E j \in ActiveSlots(apps) : i < j

\* the scenario of C3: a (duration 1000) and b (duration 2000) are active,
\* a in the lower slot, no item active between them or after b
Scenario(tbl) ==
    LET ia == AppFindIn(tbl, IdA)
        ib == AppFindIn(tbl, IdB)
    IN
    /\ ia >= 0 /\ ib >= 0 /\ ia < ib
    /\ tbl[ia].duration = 1000 /\ tbl[ib].duration = 2000
    /\ \A i \in ActiveSlots(tbl) : i <= ia \/ i = ib

NoNotification == notificationCount = 0 /\ savedAppIndex < 0

\* C3 as stated: in the scenario the first tick selects a, after more than
\* 1000 ms b, after more than another 2000 ms a again.
C3_AsStated ==
    [][ (lastOp'.op = "loopApps" /\ Scenario(apps) /\ NoNotification
         /\ appRotationEnabled) =>
        LET ia == AppFindIn(apps, IdA)
            ib == AppFindIn(apps, IdB)
            cur == AppGetCurrent(apps, currentAppIndex)
        IN
        /\ (cur = -1 => currentAppIndex' = ia)
        /\ (cur = ia /\ Elapsed(now, lastAppSwitch) > 1000 => currentAppIndex' = ib)
        /\ (cur = ib /\ Elapsed(now, lastAppSwitch) > 2000 => currentAppIndex' = ia)
      ]_vars

\* C3 amended: the first tick and the wrap select the lowest active slot
\* (the system item weatherclock while it is active, a otherwise); a stays
\* current until more than 1000 ms have elapsed and is then followed by b;
\* b stays until more than 2000 ms have elapsed.
C3_Rotation ==
    [][ (lastOp'.op = "loopApps" /\ Scenario(apps) /\ NoNotification
         /\ appRotationEnabled) =>
        LET ia == AppFindIn(apps, IdA)
            ib == AppFindIn(apps, IdB)
            cur == AppGetCurrent(apps, currentAppIndex)
            first == FirstIn(ActiveSlots(apps'))
        IN
        /\ Scenario(apps')
        /\ (cur = -1 /\ currentAppIndex = -1 => currentAppIndex' = first)
        /\ (cur = ia => currentAppIndex' =
                IF Elapsed(now, lastAppSwitch) > 1000 THEN ib ELSE ia)
        /\ (cur = ib => currentAppIndex' =
                IF Elapsed(now, lastAppSwitch) > 2000 THEN first ELSE ib)
        /\ (apps'[0].active => first = 0)
        /\ (~apps'[0].active => first = ia)
      ]_vars

\* a, then b, then the wrap have just happened
C3_Witness ==
    /\ Scenario(apps)
    /\ lastOp.op = "loopApps" /\ lastOp.advanced
    /\ Len(rotationLog) >= 3
    /\ rotationLog[Len(rotationLog) - 2] = AppFindIn(apps, IdA)
    /\ rotationLog[Len(rotationLog) - 1] = AppFindIn(apps, IdB)
    /\ currentAppIndex = FirstIn(ActiveSlots(apps))

-----------------------------------------------------------------------------
(* Claims about the notification queue *)

ActiveNotifs == {i \in NotifSlots : notifications[i].active}

\* active non-urgent notifications that no render has stamped yet
QueuedPlain(q) ==
    {i \in NotifSlots : q[i].active /\ ~q[i].urgent /\ q[i].displayedAt = 0}

\* C4: an accepted urgent notification is current as soon as notifAdd
\* returns, while no non-urgent notification that is still queued (not yet
\* displayed) has ever been current: the urgent one becomes current strictly
\* before every earlier non-urgent one that is still waiting.
C4_UrgentFirst ==
    [][ (lastOp'.op = "notifAdd" /\ lastOp'.urgent /\ lastOp'.result >= 0) =>
        /\ currentNotifIndex' = lastOp'.result
        /\ notifMeta'[lastOp'.result].wasCurrent
        /\ \A n \in QueuedPlain(notifications') :
              /\ ~notifMeta'[n].wasCurrent
              /\ n \in QueuedPlain(notifications) =>
                    notifMeta'[n].seq < notifMeta'[lastOp'.result].seq
      ]_vars

\* an urgent notification is current while an earlier non-urgent one waits
C4_Witness ==
    /\ lastOp.op = "notifAdd" /\ lastOp.urgent /\ lastOp.result >= 0
    /\ currentNotifIndex = lastOp.result
    /\ \E n \in QueuedPlain(notifications) :
          notifMeta[n].seq < notifMeta[lastOp.result].seq

\* the notification of slot i is removed from the queue by this step
Removed(i) ==
    /\ notifications[i].active
    /\ ~notifications'[i].active \/ notifMeta'[i].seq # notifMeta[i].seq

\* C5 as stated: a hold notification leaves the queue only by notifDismiss.
C5_AsStated ==
    [][ \A i \in NotifSlots :
          (notifications[i].hold /\ Removed(i)) =>
              (lastOp'.op = "notifDismiss" /\ currentNotifIndex = i)
      ]_vars

\* C5 amended: a hold notification is never removed by a tick, however long
\* it has been displayed; it leaves the queue only by notifDismiss while it
\* is current, or when a later notifAdd with stack=false clears the queue.
C5_HoldStays ==
    [][ \A i \in NotifSlots :
          (notifications[i].hold /\ Removed(i)) =>
              \/ lastOp'.op = "notifDismiss" /\ currentNotifIndex = i
              \/ lastOp'.op = "notifAdd" /\ ~lastOp'.stack
      ]_vars

\* a tick has just left in place a current hold notification displayed for
\* longer than its duration
C5_Witness ==
    /\ lastOp.op = "loopApps"
    /\ currentNotifIndex >= 0
    /\ notifications[currentNotifIndex].active
    /\ notifications[currentNotifIndex].hold
    /\ notifications[currentNotifIndex].duration > 0
    /\ notifications[currentNotifIndex].displayedAt > 0
    /\ Elapsed(now, notifications[currentNotifIndex].displayedAt) >
          notifications[currentNotifIndex].duration

-----------------------------------------------------------------------------
(* Claims about preemption *)

AppScrollReset ==
    appScrollState.scrollOffset = 0 /\ appScrollState.scrollPhase = 0

\* C6 as stated: with a current, an urgent notification of 3000 ms is on
\* the panel after the next loop pass; the tick that finds it expired
\* makes a current again and resets the app scroll state.
C6_AsStated ==
    [][ /\ (/\ lastOp.op = "loopApps" /\ lastOp'.op = "loopDisplay"
            /\ NotifGetCurrent(NotifState) >= 0
            /\ preemptedApp >= 0 /\ preemptedApp = AppFindIn(apps, IdA)
            /\ notifications[currentNotifIndex].urgent)
           => rendered' = [kind |-> "notif", index |-> currentNotifIndex]
        /\ (/\ lastOp'.op = "loopApps" /\ lastOp'.expired
            /\ notificationCount = 1
            /\ notifications[currentNotifIndex].urgent
            /\ notifications[currentNotifIndex].duration = 3000
            /\ preemptedApp >= 0 /\ preemptedApp = AppFindIn(apps, IdA))
           => /\ notificationCount' = 0
              /\ currentAppIndex' = preemptedApp
              /\ AppScrollReset'
      ]_vars

\* C7 as stated: the tick that finds the queue drained restores the app
\* index that was current at the first preemption, resets the app scroll
\* state, restarts the rotation timer and re-renders at once.
C7_AsStated ==
    [][ (lastOp'.op = "loopApps" /\ lastOp'.drained /\ preemptedApp >= 0) =>
        /\ lastOp'.restored
        /\ currentAppIndex' = preemptedApp
        /\ AppScrollReset'
        /\ appScrollState'.lastScrollTime = now
        /\ lastAppSwitch' = now
        /\ lastDisplayUpdate' = now
        /\ rendered' = [kind |-> "app", index |-> preemptedApp]
      ]_vars

-----------------------------------------------------------------------------
(* Claims about the icon cache *)

\* this step installs a bitmap in cache slot i
Installed(i) ==
    /\ iconCache'[i].valid
    /\ ~iconCache[i].valid \/ iconCache'[i].name # iconCache[i].name

InvalidSlots == {i \in IconSlots : ~iconCache[i].valid}

\* C8: an install goes to the first invalid slot when there is one and to a
\* slot with the smallest last-used time otherwise, and changes no other
\* slot; a lookup of a cached name only sets that entry's last-used time.
C8_LRU ==
    [][ /\ \A i \in IconSlots :
             Installed(i) =>
                 /\ InvalidSlots # {} => i = FirstIn(InvalidSlots)
                 /\ InvalidSlots = {} =>
                        \A j \in IconSlots :
                            iconCache[i].lastUsed <= iconCache[j].lastUsed
                 /\ \A j \in IconSlots \ {i} : iconCache'[j] = iconCache[j]
                 /\ iconCache'[i].lastUsed = now
                 /\ iconCache'[i].name = iconOp'.name
        /\ (/\ lastOp'.op \in {"loopApps", "loopDisplay"}
            /\ iconOp'.name # << >>
            /\ FindCached(iconCache, iconOp'.name) >= 0)
           => /\ iconOp'.slot = FindCached(iconCache, iconOp'.name)
              /\ iconCache' = [iconCache EXCEPT ![iconOp'.slot].lastUsed = now]
      ]_vars

\* the cache is full, its first entry was refreshed by a hit and has
\* survived the install that has just evicted the second bitmap loaded
C8_Witness ==
    /\ \A i \in IconSlots : iconCache[i].valid
    /\ iconCache[0].name = LocalNames[1]
    /\ HasPng(iconFiles, LocalNames[2])
    /\ LocalNames[2] \notin CachedNames
    /\ iconOp.slot = 1
    /\ iconCache[1].lastUsed = now

\* this step is a render that attempts a download
Fetches ==
    lastOp'.op \in {"loopApps", "loopDisplay"} /\ iconOp'.fetch

\* C9 as stated: no download is attempted for a name whose download failed
\* less than FAILED_ICON_RETRY_DELAY ago.
C9_AsStated ==
    [][ Fetches =>
        \A k \in 1..Len(fetchLog) :
            fetchLog[k].name = iconOp'.name =>
                Elapsed(now, fetchLog[k].at) >= FAILED_ICON_RETRY_DELAY
      ]_vars

\* C9 amended: a download is attempted for a name whose download failed
\* less than FAILED_ICON_RETRY_DELAY ago only if at least
\* MAX_FAILED_ICON_DOWNLOADS downloads of other names have failed since.
C9_Cooldown ==
    [][ Fetches =>
        \A k \in 1..Len(fetchLog) :
            (/\ fetchLog[k].name = iconOp'.name
             /\ Elapsed(now, fetchLog[k].at) < FAILED_ICON_RETRY_DELAY)
            => Len(fetchLog) - k >= MAX_FAILED_ICON_DOWNLOADS
      ]_vars

\* a render has just looked up a name whose download failed before that of
\* another name, and has attempted no download
C9_Witness ==
    /\ lastOp.op \in {"loopApps", "loopDisplay"}
    /\ iconOp.name # << >>
    /\ ~iconOp.fetch
    /\ iconOp.slot = -1
    /\ \E k \in 1..Len(fetchLog) :
          /\ fetchLog[k].name = iconOp.name
          /\ k < Len(fetchLog)
          /\ Elapsed(now, fetchLog[k].at) < FAILED_ICON_RETRY_DELAY

\* the remote naming convention as the claim words it: "lm_" followed by
\* one or more characters, digits only
RemoteConvention(name) ==
    \E n \in 1..(Len(name) - 3) :
        /\ Len(name) = 3 + n
        /\ name[1] = "l" /\ name[2] = "m" /\ name[3] = "_"
        /\ \A i \in 1..n : name[3 + i] \in Digits

\* this step renders an item whose icon name has no file in the store and
\* does not follow the remote naming convention
LooksUpUnknown ==
    /\ lastOp'.op \in {"loopApps", "loopDisplay"}
    /\ iconOp'.name # << >>
    /\ ~RemoteConvention(iconOp'.name)
    /\ \A f \in iconFiles : f.name # iconOp'.name

\* C10: the lookup of such a name returns no bitmap, attempts no download,
\* adds nothing to the blacklist, leaves cache and store as they are, and
\* the item is laid out with its text at the text-only position.
C10_UnknownIcon ==
    [][ LooksUpUnknown =>
        /\ iconOp'.slot = -1
        /\ ~iconOp'.fetch
        /\ failedIconDownloads' = failedIconDownloads
        /\ fetchLog' = fetchLog
        /\ iconCache' = iconCache
        /\ iconFiles' = iconFiles
        /\ layout'.textYPos = 28
      ]_vars

\* an item named after no bitmap has just been rendered text-only while the
\* cache holds a bitmap and the layout before was that of an item with icon
C10_Witness ==
    /\ lastOp.op \in {"loopApps", "loopDisplay"}
    /\ iconOp.name \in {PrefixLetter, DigitsLetter, PrefixOnly}
    /\ iconOp.slot = -1
    /\ layout.textYPos = 28
    /\ \E i \in IconSlots : iconCache[i].valid
    /\ \A f \in iconFiles : f.name # iconOp.name

-----------------------------------------------------------------------------
(* Claims about the pixel buffers of the icon cache *)

ValidSlots == {i \in IconSlots : iconCache[i].valid}

\* the slots whose pixels pointer is buffer p
Owners(p) == {i \in IconSlots : iconCache[i].pixels = p}

\* C11: at most MAX_ICON_CACHE entries are valid, no two valid entries have
\* the same name, a valid entry owns a live buffer, no slot points to a
\* freed buffer, every live buffer is owned by exactly one slot, and free
\* was never called on a buffer that is not live.
C11_CacheIntegrity ==
    /\ Cardinality(ValidSlots) <= MAX_ICON_CACHE
    /\ \A i, j \in ValidSlots : iconCache[i].name = iconCache[j].name => i = j
    /\ \A i \in ValidSlots : iconCache[i].pixels \in heap.live
    /\ \A i \in IconSlots : iconCache[i].pixels # 0 => iconCache[i].pixels \in heap.live
    /\ \A p \in heap.live : Cardinality(Owners(p)) = 1
    /\ ~heap.fault

\* a render has just asked for the bitmap that fails to decode while every
\* slot was valid: the oldest entry was evicted, the new buffer was freed
\* again, and seven entries with seven buffers are left
C11_Witness ==
    /\ lastOp.op \in {"loopApps", "loopDisplay"}
    /\ iconOp.name = BadDecode
    /\ iconOp.slot = -1
    /\ Cardinality(ValidSlots) = MAX_ICON_CACHE - 1
    /\ Cardinality(heap.live) = MAX_ICON_CACHE - 1
    /\ \E i \in IconSlots : ~iconCache[i].valid /\ iconCache[i].name # << >>

\* this step is a request that calls invalidateCachedIcon(lastOp'.name)
Invalidates ==
    mgmtOps' = mgmtOps + 1 /\ lastOp'.op \in {"iconsDelete", "iconsUpload"}

\* this step is a render that looks up a name that is not cached and has a
\* good PNG in the store
Reloads ==
    /\ lastOp'.op \in {"loopApps", "loopDisplay"}
    /\ iconOp'.name # << >>
    /\ \A i \in ValidSlots : iconCache[i].name # iconOp'.name
    /\ \E f \in iconFiles : f.name = iconOp'.name /\ f.ext = "png" /\ f.hdr /\ f.ok

\* C12: invalidateCachedIcon(name) frees and invalidates the entry of that
\* name and leaves every other entry as it is; it changes nothing when the
\* name is not cached or when it is called again; the next lookup of the
\* name misses the cache and installs the bitmap the store holds then.
C12_Invalidate ==
    [][ /\ Invalidates =>
            /\ \A i \in IconSlots :
                  IF iconCache[i].valid /\ iconCache[i].name = lastOp'.name
                  THEN /\ ~iconCache'[i].valid
                       /\ iconCache'[i].pixels = 0
                       /\ iconCache[i].pixels \notin heap'.live
                  ELSE iconCache'[i] = iconCache[i]
            /\ (\A i \in ValidSlots : iconCache[i].name # lastOp'.name)
                  => iconCache' = iconCache /\ heap' = heap
            /\ InvalidateCachedIcon(iconCache', heap', lastOp'.name)
                  = [cache |-> iconCache', heap |-> heap']
        /\ Reloads =>
            /\ iconOp'.slot >= 0
            /\ iconCache'[iconOp'.slot].valid
            /\ iconCache'[iconOp'.slot].name = iconOp'.name
            /\ iconCache'[iconOp'.slot].lastUsed = now
            /\ \E f \in iconFiles :
                  /\ f.name = iconOp'.name /\ f.ext = "png"
                  /\ iconCache'[iconOp'.slot].width = Min(f.size, 32)
      ]_vars

\* the bitmap that was replaced while it was cached has just been looked up
\* again, and the entry returned is the new version
C12_Witness ==
    /\ lastOp.op \in {"loopApps", "loopDisplay"}
    /\ iconOp.name = LocalNames[1]
    /\ iconOp.slot >= 0
    /\ iconCache[iconOp.slot].width = NewVersion.size
    /\ iconCache[iconOp.slot].lastUsed = now

-----------------------------------------------------------------------------
(* Claims about the scroll state of the two text surfaces *)

TextArea == DISPLAY_WIDTH - 4

Fits(text) == CalculateTextWidth(text) <= TextArea

AtRest(s) == ~s.needsScroll /\ s.scrollOffset = 0

\* a step of loop() that called displayShowApp or displayShowNotification:
\* loopDisplay when it redraws, loopApps when it makes an item or a
\* notification current (each call site sets lastDisplayUpdate = now)
Drew ==
    \/ lastOp'.op = "loopDisplay" /\ lastOp'.drew
    \/ lastOp'.op = "loopApps" /\ lastDisplayUpdate' = now /\ lastDisplayUpdate # now

\* the step drew the text of a custom item / of a notification
AppDrawn ==
    /\ Drew
    /\ rendered'.kind = "app"
    /\ apps'[rendered'.index].id # WeatherClockId

NotifDrawn == Drew /\ rendered'.kind = "notif"

AppTextDrawn == apps'[rendered'.index].text

NotifTextDrawn == notifications'[rendered'.index].text

\* C13: a render of a text that fits the text area leaves the surface with
\* needsScroll false and offset 0, whatever was shown before, and a surface
\* in that state stays in it over every step that draws no wider text.
C13_FittingTextAtRest ==
    [][/\ AppDrawn /\ Fits(AppTextDrawn) => AtRest(appScrollState')
       /\ NotifDrawn /\ Fits(NotifTextDrawn) => AtRest(notifScrollState')
       /\ AtRest(appScrollState) /\ (AppDrawn => Fits(AppTextDrawn))
             => AtRest(appScrollState')
       /\ AtRest(notifScrollState) /\ (NotifDrawn => Fits(NotifTextDrawn))
             => AtRest(notifScrollState')]_vars

\* a fitting notification text is on the display, two seconds after its
\* render ended the scroll of the wider text it replaced: the phase went to
\* 0 two seconds after the Scrolling phase had begun, without
\* lastScrollTime being refreshed
C13_Witness ==
    /\ NotifGetCurrent(NotifState) >= 0
    /\ Fits(notifications[NotifGetCurrent(NotifState)].text)
    /\ rendered = [kind |-> "notif", index |-> NotifGetCurrent(NotifState)]
    /\ notifScrollState.textWidth = CalculateTextWidth(ShortText)
    /\ phaseSince.notif >= notifScrollState.lastScrollTime + 2000
    /\ now >= phaseSince.notif + 2000
    /\ AtRest(notifScrollState)

\* the offset at which the Scrolling phase ends: maxScroll of loopDisplay
EndOffset(s) == s.textWidth - s.availableWidth + 10

\* how one step may move the offset of a surface: within the bound of the
\* text the surface scrolls, up by one pixel and only in the Scrolling
\* phase, down only to 0 together with a return to PauseStart
OffsetMove(s, s2) ==
    /\ s2.needsScroll => s2.scrollOffset <= EndOffset(s2)
    /\ s2.scrollOffset > s.scrollOffset
          => s.scrollPhase = 1 /\ s2.scrollOffset = s.scrollOffset + 1
    /\ s2.scrollOffset < s.scrollOffset
          => s2.scrollOffset = 0 /\ s2.scrollPhase = 0

\* C14: the offset of a scrolling text grows by one pixel per scroll step in
\* the Scrolling phase, never exceeds textWidth - availableWidth + 10, and
\* decreases only by the reset to 0 that returns the surface to PauseStart.
C14_OffsetWithinBound ==
    [][/\ OffsetMove(appScrollState, appScrollState')
       /\ OffsetMove(notifScrollState, notifScrollState')]_vars

\* how one step may move the phase of a surface: along PauseStart (0),
\* Scrolling (1), PauseEnd (2), PauseStart, out of a pause only when it has
\* lasted SCROLL_PAUSE, out of Scrolling only at the end offset (other than
\* by the reset for new content: phase 0, offset 0, made by loopApps, by a
\* dismissal or by the render of a fitting text), with the offset unchanged
\* while the surface stays in a pause
PhaseMove(s, s2, since) ==
    /\ s2.scrollPhase # s.scrollPhase =>
          \/ /\ s.scrollPhase = 0 /\ s2.scrollPhase = 1
             /\ Elapsed(now, since) >= SCROLL_PAUSE
          \/ /\ s.scrollPhase = 1 /\ s2.scrollPhase = 2
             /\ s2.scrollOffset >= EndOffset(s)
          \/ /\ s.scrollPhase = 2 /\ s2.scrollPhase = 0 /\ s2.scrollOffset = 0
             /\ Elapsed(now, since) >= SCROLL_PAUSE
          \/ /\ s2.scrollPhase = 0 /\ s2.scrollOffset = 0
             /\ (lastOp'.op # "loopDisplay" \/ ~s2.needsScroll)
    /\ s2.scrollPhase = s.scrollPhase /\ s.scrollPhase \in {0, 2}
          => s2.scrollOffset = s.scrollOffset

\* C15: each surface moves only along PauseStart, Scrolling, PauseEnd,
\* PauseStart; it leaves a pause only SCROLL_PAUSE ms after entering it and
\* Scrolling only at the end offset, and a pause leaves the offset unchanged.
C15_PhaseCycle ==
    [][/\ PhaseMove(appScrollState, appScrollState', phaseSince.app)
       /\ PhaseMove(notifScrollState, notifScrollState', phaseSince.notif)]_vars

Restarted(s) == s.scrollOffset = 0 /\ s.scrollPhase = 0

\* the step draws on the app surface a text of another width than the one
\* the surface showed last
AppTextChanged ==
    AppDrawn /\ CalculateTextWidth(AppTextDrawn) # appScrollState.textWidth

\* the step draws on the notification surface a text of another width than
\* the one shown last, or another notification with another text
NotifTextChanged ==
    /\ NotifDrawn
    /\ \/ CalculateTextWidth(NotifTextDrawn) # notifScrollState.textWidth
       \/ /\ rendered.kind = "notif"
          /\ rendered'.index # rendered.index
          /\ NotifTextDrawn # notifications[rendered.index].text

\* C16: the first render of a changed text shows it at offset 0 in
\* PauseStart, on the app surface (text replaced through appAdd) and on the
\* notification surface (urgent notification replacing the shown one).
C16_NewContentRestarts ==
    [][/\ AppTextChanged => Restarted(appScrollState')
       /\ NotifTextChanged => Restarted(notifScrollState')]_vars

-----------------------------------------------------------------------------
(* Claims about requests on the app table *)

RemoveStep == lastOp'.op = "appRemove" /\ mgmtOps' = mgmtOps + 1

TableUntouched ==
    apps' = apps /\ appCount' = appCount /\ currentAppIndex' = currentAppIndex

\* the outcome of appRemove(id), i the slot appFind(id) returns
RemoveOutcome(i) ==
    IF i < 0 \/ apps[IF i >= 0 THEN i ELSE 0].isSystem
    THEN ~lastOp'.result /\ TableUntouched
    ELSE /\ lastOp'.result
         /\ apps' = [apps EXCEPT ![i].active = FALSE]
         /\ appCount' = appCount - 1
         /\ currentAppIndex' = IF currentAppIndex = i THEN -1 ELSE currentAppIndex

\* a pass of loopApps that starts with no current item, no notification
\* and at least one item that is active and not expired
SelectsFresh ==
    /\ lastOp'.op = "loopApps"
    /\ currentAppIndex = -1
    /\ notificationCount = 0
    /\ appCount # 0
    /\ \E i \in AppSlots : apps[i].active /\ ~AppExpired(apps, i, now)

\* C17: appRemove of a system item or of an unknown id is rejected and
\* changes neither the table, the live count nor the rotation pointer; of an
\* active non-system item it deactivates that slot only, lowers the live
\* count by one and clears the pointer exactly when the item was current;
\* the next pass of loopApps then makes an active item current.
C17_Remove ==
    [][/\ RemoveStep => RemoveOutcome(AppFind(lastOp'.id))
       /\ SelectsFresh => /\ lastOp'.advanced
                          /\ AppGetCurrent(apps', currentAppIndex') >= 0]_vars

\* item a has just been removed while it was the current item on the display
C17_Witness ==
    /\ lastOp = [op |-> "appRemove", id |-> IdA, result |-> TRUE]
    /\ currentAppIndex = -1
    /\ rendered.kind = "app"
    /\ apps[rendered.index].id = IdA
    /\ ~apps[rendered.index].active
    /\ AppFind(WeatherClockId) >= 0

AddStep == lastOp'.op = "appAdd" /\ mgmtOps' = mgmtOps + 1

NotifAddStep == lastOp'.op = "notifAdd" /\ mgmtOps' = mgmtOps + 1

QueueUntouched ==
    /\ notifications' = notifications
    /\ notificationCount' = notificationCount
    /\ currentNotifIndex' = currentNotifIndex
    /\ savedAppIndex' = savedAppIndex

\* C18: appAdd of a new id with all 16 slots active, and notifAdd with
\* stack = true with all 10 slots active (urgent or not), return -1 and
\* leave table, queue, live counts and current indices as they were; with a
\* free slot the same requests succeed.
C18_FullIsRejected ==
    [][/\ AddStep /\ AppFind(lastOp'.id) < 0 =>
             IF TableFull
             THEN lastOp'.result = -1 /\ TableUntouched /\ QueueUntouched
             ELSE lastOp'.result >= 0 /\ apps'[lastOp'.result].active
       /\ NotifAddStep /\ lastOp'.stack =>
             IF QueueFull
             THEN lastOp'.result = -1 /\ QueueUntouched /\ TableUntouched
             ELSE lastOp'.result >= 0 /\ notifications'[lastOp'.result].active]_vars

\* an urgent notification has just been rejected by the full queue while
\* another notification is on the display and the table is full as well
C18_Witness ==
    /\ lastOp.op = "notifAdd"
    /\ lastOp.result = -1
    /\ lastOp.urgent
    /\ QueueFull
    /\ TableFull
    /\ NotifGetCurrent(NotifState) >= 0
    /\ rendered.kind = "notif"

\* the item of slot i after a request r has overwritten it at time t
Overwritten(item, r, t) ==
    [item EXCEPT !.text = r.text, !.icon = r.icon, !.textColor = r.textColor,
                 !.duration = r.duration, !.lifetime = r.lifetime,
                 !.priority = r.priority, !.createdAt = t]

\* the outcome of appAdd(id, ...), i the slot appFind(id) returns
AddOutcome(i, r) ==
    IF i >= 0
    THEN /\ lastOp'.result = i
         /\ apps' = [apps EXCEPT ![i] = Overwritten(apps[i], r, now)]
         /\ appCount' = appCount
         /\ currentAppIndex' = currentAppIndex
    ELSE \A free \in AppSlots :
            ~apps[free].active /\ (\A j \in 0..(free - 1) : apps[j].active)
            => /\ lastOp'.result = free
               /\ apps'[free].active
               /\ apps'[free].id = lastOp'.id
               /\ apps'[free].createdAt = now
               /\ \A j \in AppSlots \ {free} : apps'[j] = apps[j]
               /\ appCount' = appCount + 1
               /\ currentAppIndex' = currentAppIndex

\* a pass of loopApps deactivates slot i
Expires(i) == lastOp'.op = "loopApps" /\ apps[i].active /\ ~apps'[i].active

NoLifetimeLeft == \A i \in AppSlots : apps[i].active => apps[i].lifetime = 0

\* C20: every active item with a lifetime is deactivated at some later
\* time, rotation enabled or not, so that once the last request has been
\* served the table ends up holding no item with a lifetime; and expiry
\* never deactivates an item whose lifetime is 0.
C20_LifetimeExpires ==
    /\ <>[]NoLifetimeLeft
    /\ [][\A i \in AppSlots : Expires(i) => apps[i].lifetime > 0]_vars

-----------------------------------------------------------------------------
(* Claims about the passes of loop() *)

NotifCurrent == currentNotifIndex >= 0 /\ notifications[currentNotifIndex].active

AppCurrent == currentAppIndex >= 0 /\ apps[currentAppIndex].active

DisplayPass == lastOp'.op = "loopDisplay"

\* what a display pass that draws puts on the panel in the present state
Panel ==
    IF NotifCurrent THEN [kind |-> "notif", index |-> currentNotifIndex]
    ELSE IF AppCurrent THEN [kind |-> "app", index |-> currentAppIndex]
    ELSE [kind |-> "clock", index |-> -1]

-----------------------------------------------------------------------------
(* Claims about the persisted table *)

\* this step changes a non-system item: creates, updates or deactivates it
Mutates ==
    \E i \in AppSlots :
       /\ apps'[i] # apps[i]
       /\ Persists(apps[i]) \/ Persists(apps'[i])

\* the same, by a request of the management interface
RequestMutates == Mutates /\ lastOp'.op \in {"appAdd", "appRemove"}

\* C22: after every operation that changes a non-system item (create or
\* update through the management interface, its text segments and label
\* included, removal, automatic expiry) the persisted table is the sequence
\* of the active non-system items in memory with their current fields.
C22_PersistedEqualsMemory ==
    [][Mutates => savedApps' = SaveApps(apps')]_vars

-----------------------------------------------------------------------------
(* Claims about notifications and the rotation *)

Tick == lastOp'.op = "loopApps"

\* the rotation pointer, its timer and the app surface are left alone
RotationFrozen ==
    /\ currentAppIndex' = currentAppIndex
    /\ lastAppSwitch' = lastAppSwitch
    /\ appScrollState' = appScrollState
    /\ rendered'.kind # "app" \/ rendered' = rendered

\* this tick finds the notifications ended that had preempted an active item
Drains ==
    /\ Tick /\ ~NotifCurrent'
    /\ preemptedApp >= 0 /\ apps[preemptedApp].active

\* C23: while a notification is current a tick does not advance the rotation
\* pointer and no pass renders an app; the time notifications were shown does
\* not count toward the duration of the preempted item: the tick that finds
\* the notifications ended leaves that item current and restarts the rotation
\* timer, whether the notifications became current by selection or urgently.
C23_RotationFrozen ==
    [][ /\ (Tick /\ NotifCurrent') => RotationFrozen
        /\ (DisplayPass /\ NotifCurrent) => RotationFrozen
        /\ Drains => (currentAppIndex' = preemptedApp /\ lastAppSwitch' = now)
      ]_vars

\* the lifetime of the item in slot i has elapsed at time t
LifetimeElapsed(tbl, i, t) ==
    tbl[i].lifetime > 0 /\ t - tbl[i].createdAt > tbl[i].lifetime

Undisplayed == {i \in NotifSlots : notifications[i].active /\ notifications[i].displayedAt = 0}

\* C24: within a tick the expiry sweep precedes the rotation advance and
\* notification selection precedes app rendering.  A tick that advances the
\* rotation leaves no active item whose lifetime has elapsed, the new current
\* item least of all; a tick that starts with an undisplayed queued
\* notification ends with a notification current, neither advances nor
\* restores the rotation, and renders no app in loopApps or in loopDisplay.
C24_OrderWithinTick ==
    [][ /\ (Tick /\ lastOp'.advanced) =>
              /\ apps'[currentAppIndex'].active
              /\ \A i \in ActiveSlots(apps') : ~LifetimeElapsed(apps', i, now)
        /\ (Tick /\ Undisplayed # {}) =>
              /\ NotifCurrent'
              /\ ~lastOp'.advanced /\ ~lastOp'.restored
              /\ rendered'.kind # "app" \/ rendered' = rendered
        /\ (DisplayPass /\ lastOp.op = "loopApps" /\ NotifCurrent) =>
              (rendered'.kind # "app" \/ ~lastOp'.drew)
      ]_vars

\* a tick has swept an item whose lifetime had elapsed and advanced to
\* another one, in a run in which a tick had selected a queued notification
C24_Witness ==
    /\ lastOp.op = "loopApps" /\ lastOp.advanced
    /\ \E i \in AppSlots : ~apps[i].active /\ LifetimeElapsed(apps, i, now)
    /\ \E n \in NotifSlots : notifMeta[n].wasCurrent /\ ~notifications[n].urgent

\* the current notification has been on the panel for longer than its duration
CurrentExpired ==
    /\ NotifCurrent
    /\ ~notifications[currentNotifIndex].hold
    /\ notifications[currentNotifIndex].duration > 0
    /\ notifications[currentNotifIndex].displayedAt # 0
    /\ now - notifications[currentNotifIndex].displayedAt >
          notifications[currentNotifIndex].duration

\* C25: when the current notification has expired and another, undisplayed
\* one is queued, the same tick dismisses the expired one and makes an
\* undisplayed one current, stamped and rendered, with the notification
\* scroll state reset; the rotation is not resumed and the remembered app
\* index is neither restored nor dropped.
C25_NextInSameTick ==
    [][ (Tick /\ CurrentExpired /\ Undisplayed # {}) =>
          /\ ~notifications'[currentNotifIndex].active
          /\ notificationCount' = notificationCount - 1
          /\ currentNotifIndex' \in Undisplayed
          /\ notifications'[currentNotifIndex'].active
          /\ notifications'[currentNotifIndex'].displayedAt = now
          /\ rendered' = [kind |-> "notif", index |-> currentNotifIndex']
          /\ notifScrollState'.scrollOffset = 0
          /\ notifScrollState'.scrollPhase = 0
          /\ notifScrollState'.lastScrollTime = now
          /\ savedAppIndex' = savedAppIndex
          /\ currentAppIndex' = currentAppIndex
          /\ lastAppSwitch' = lastAppSwitch
          /\ appScrollState' = appScrollState
          /\ ~lastOp'.advanced /\ ~lastOp'.restored
      ]_vars

\* a tick has replaced an expired notification whose text was scrolling by
\* the next one, while an app index was remembered
C25_Witness ==
    /\ lastOp.op = "loopApps" /\ lastOp.expired
    /\ NotifCurrent
    /\ notifications[currentNotifIndex].displayedAt = now
    /\ savedAppIndex >= 0
    /\ notifScrollState.scrollPhase = 0 /\ phaseSince.notif = now

\* this tick makes a notification current that was not
Selects ==
    /\ Tick /\ NotifCurrent'
    /\ currentNotifIndex' # currentNotifIndex \/ ~NotifCurrent

UndisplayedUrgent == {i \in Undisplayed : notifications[i].urgent}

\* C26: the notification a tick selects is an undisplayed urgent one if
\* there is one, otherwise the undisplayed one that arrived first: non-urgent
\* notifications are shown in the order in which they were enqueued, also
\* when slots are freed and reused while others wait.
C26_ArrivalOrder ==
    [][ Selects =>
          /\ currentNotifIndex' \in Undisplayed
          /\ UndisplayedUrgent # {} => currentNotifIndex' \in UndisplayedUrgent
          /\ UndisplayedUrgent = {} =>
                \A j \in Undisplayed :
                    notifMeta[currentNotifIndex'].seq <= notifMeta[j].seq
      ]_vars

\* notification i can expire: it is not held and has a duration
Timed(i) == ~notifications[i].hold /\ notifications[i].duration > 0

\* notification i has been rendered and its duration has elapsed since
Overdue(i) ==
    /\ notifications[i].active /\ Timed(i)
    /\ notifications[i].displayedAt # 0
    /\ now - notifications[i].displayedAt > notifications[i].duration

\* a tick removes notification i
AutoDismissed(i) == Tick /\ notifications[i].active /\ ~notifications'[i].active

NoneOverdue == \A i \in NotifSlots : ~Overdue(i)

\* C27: the expiry clock of a notification starts at its first render.  A
\* tick removes a notification only when it is not held, has a duration
\* d > 0, has been rendered and more than d ms have passed since its first
\* render (so one that was never rendered is never expired); and while the
\* ticks continue a notification in that condition is removed.
C27_ExpiryClock ==
    /\ [][\A i \in NotifSlots : AutoDismissed(i) => Overdue(i)]_vars
    /\ <>[]NoneOverdue

(* C28: notifAdd with stack=false replaces the whole queue: when it        *)
(* returns, the new notification is the only active one, the live count    *)
(* is 1 and no previous notification is current; with stack=true every     *)
(* notification that was active is still active and unchanged.             *)
Replaced ==
    /\ lastOp'.result >= 0
    /\ {i \in NotifSlots : notifications'[i].active} = {lastOp'.result}
    /\ notificationCount' = 1
    /\ currentNotifIndex' \in {-1, lastOp'.result}

Appended ==
    \A i \in NotifSlots :
        notifications[i].active => notifications'[i] = notifications[i]

C28_StackFlag ==
    [][NotifAddStep => IF lastOp'.stack THEN Appended ELSE Replaced]_vars

\* a third arrival with stack=false has just replaced two queued ones
C28_Witness ==
    /\ lastOp.op = "notifAdd" /\ ~lastOp.stack /\ lastOp.result = 0
    /\ notifSeq = 3 /\ notifMeta[1].seq = 2 /\ now = 3000
    /\ notificationCount = 1
    /\ notifications[1].text = ShortText /\ ~notifications[1].active

(* C29: every notification accepted by notifAdd that is not held and has   *)
(* a duration is eventually displayed and then removed from the queue as   *)
(* long as ticks continue; in every reachable state each active            *)
(* notification is either current or not yet displayed, so no slot stays   *)
(* occupied by a notification that was displayed and then displaced.       *)
Displaced(i) ==
    /\ notifications[i].active
    /\ notifications[i].displayedAt > 0
    /\ i # currentNotifIndex

Waiting(i) == Timed(i) /\ notifications[i].displayedAt = 0

Shown(i) == notifications[i].active /\ notifications[i].displayedAt > 0

NoneDisplaced == \A i \in NotifSlots : ~Displaced(i)

C29_ShownThenRemoved ==
    /\ []NoneDisplaced
    /\ \A i \in NotifSlots : Waiting(i) ~> Shown(i)
    /\ \A i \in NotifSlots : Timed(i) ~> ~notifications[i].active

----------------------------------------------------------------------------
(* Claims about system items                                               *)

(* C30: an item created with the system flag stays active under every      *)
(* sequence of management operations and ticks: neither appRemove, nor     *)
(* appAdd with its id (which may give it a lifetime), nor the expiry       *)
(* sweep deactivates a system item.                                        *)
SystemItem(i) == apps[i].active /\ apps[i].isSystem

C30_SystemItemStays ==
    [][\A i \in AppSlots : SystemItem(i) => apps'[i].active]_vars

----------------------------------------------------------------------------
(* Claims about icon lookups that return no bitmap                         *)

\* this step is a render whose getIcon returned nullptr
IconMiss ==
    /\ lastOp'.op \in {"loopApps", "loopDisplay"}
    /\ iconOp'.name # << >>
    /\ iconOp'.slot = -1

ValidEntries == {[slot |-> i, name |-> iconCache[i].name] : i \in ValidSlots}

(* C31: a getIcon call that returns no bitmap leaves the set of valid      *)
(* cache entries unchanged: a miss whose file is absent, cannot be opened  *)
(* or fails to decode never evicts a valid entry, also when all            *)
(* MAX_ICON_CACHE slots are valid.                                         *)
C31_MissKeepsCache ==
    [][IconMiss => ValidEntries' = ValidEntries]_vars

\* the instants of the cooldown window that starts at t, sampled
CooldownSamples(t) == {t, t + 1000, t + FAILED_ICON_RETRY_DELAY - 1}

\* this step is a render whose getIcon attempted a download and returned
\* nullptr
FetchedNothing == Fetches /\ iconOp'.slot = -1

(* C32: when getIcon performs a download for a remote-convention name and  *)
(* still returns no bitmap (the download failed, or the downloaded file    *)
(* cannot be loaded as a PNG), the next getIcon for the same name within   *)
(* FAILED_ICON_RETRY_DELAY performs no download.                           *)
C32_NoRepeatedDownload ==
    [][FetchedNothing =>
          \A t \in CooldownSamples(now') :
              ~GetIcon(IconState', iconOp'.name, t).op.fetch]_vars

----------------------------------------------------------------------------
(* Claims about the live counts                                            *)

(* C33: in every reachable state appCount is the number of active items    *)
(* and notificationCount the number of active notifications, both within   *)
(* 0..capacity, and currentAppIndex and currentNotifIndex are -1 or a slot *)
(* index, after any sequence of appAdd, appRemove, expiry, notifAdd,       *)
(* notifDismiss, notifClearAll and ticks.                                  *)
C33_LiveCounts ==
    /\ appCount = Cardinality(ActiveSlots(apps))
    /\ notificationCount = Cardinality(ActiveNotifs)
    /\ appCount \in 0..MAX_APPS
    /\ notificationCount \in 0..MAX_NOTIFICATIONS
    /\ currentAppIndex \in {-1} \cup AppSlots
    /\ currentNotifIndex \in {-1} \cup NotifSlots

\* a tick has just dismissed an expired notification while another one
\* is queued, and the only item of the table has been swept
C33_Witness ==
    /\ lastOp.op = "loopApps" /\ lastOp.expired
    /\ notificationCount = 1
    /\ appCount = 0
    /\ \E i \in AppSlots : apps[i].id = WeatherClockId /\ ~apps[i].active

----------------------------------------------------------------------------
(* Claims about the priority field                                         *)

\* assignments of int8 priorities to the slots of the table
PriorityVariants ==
    {[i \in AppSlots |-> p] : p \in {-128, 127}}
      \cup {[i \in AppSlots |-> IF i % 2 = 0 THEN -10 ELSE 10],
            [i \in AppSlots |-> 10 - i]}

WithPriorities(tbl, f) == [i \in AppSlots |-> [tbl[i] EXCEPT !.priority = f[i]]]

\* the table without its priority fields
Plain(tbl) == WithPriorities(tbl, [i \in AppSlots |-> 0])

\* the outcome of the rotation block of a tick on table tbl
RotateOn(tbl) ==
    LoopAppsRotate(tbl, appCount, currentAppIndex, lastAppSwitch, appScrollState,
                   lastDisplayUpdate, appRotationEnabled, now)

SameRotation(t1, t2) ==
    /\ RotateOn(t1).cur = RotateOn(t2).cur
    /\ RotateOn(t1).advanced = RotateOn(t2).advanced
    /\ RotateOn(t1).las = RotateOn(t2).las
    /\ RotateOn(t1).appCount = RotateOn(t2).appCount
    /\ Plain(RotateOn(t1).apps) = Plain(RotateOn(t2).apps)

AddOn(tbl, id, p) ==
    AppAddOn(tbl, appCount, id, ShortText, << >>, White, 1000, 0, p, FALSE,
             settings.defaultDuration, now)

SameAdd(t1, t2, id, p1, p2) ==
    /\ AddOn(t1, id, p1).result = AddOn(t2, id, p2).result
    /\ AddOn(t1, id, p1).appCount = AddOn(t2, id, p2).appCount
    /\ Plain(AddOn(t1, id, p1).apps) = Plain(AddOn(t2, id, p2).apps)

(* C34: rotation order is independent of the priority field.  Two tables   *)
(* that differ only in the priorities of their items are taken by a tick   *)
(* to the same current item and by appAdd calls that differ only in the    *)
(* priority to the same slot, and they still differ only in priorities     *)
(* afterwards; appFind finds the same slot in both.  By induction two runs *)
(* that differ only in priority values show the same sequence of current   *)
(* items.                                                                  *)
C34_PriorityBlind ==
    \A f \in PriorityVariants :
        /\ SameRotation(apps, WithPriorities(apps, f))
        /\ \A id \in {IdA, IdB, WeatherClockId} :
              /\ AppFindIn(WithPriorities(apps, f), id) = AppFindIn(apps, id)
              /\ SameAdd(apps, WithPriorities(apps, f), id, -128, 127)

\* a tick has just advanced to an item although an active item of higher
\* priority exists
C34_Witness ==
    /\ lastOp.op = "loopApps" /\ lastOp.advanced
    /\ currentAppIndex >= 0
    /\ \E j \in ActiveSlots(apps) : apps[j].priority > apps[currentAppIndex].priority

(* C35: the stored priority of every active item lies within [-10, 10]     *)
(* after any sequence of appAdd calls with arbitrary int8 priorities, both *)
(* when the call creates the item and when it updates an existing one.     *)
C35_PriorityClamped ==
    \A i \in ActiveSlots(apps) : apps[i].priority \in -10..10

----------------------------------------------------------------------------
(* Claims about the request handlers and the tick                          *)

(* C36: the notification queue is mutated only inside the tick: no request *)
(* handler runs between two steps of a running tick, so a tick removes     *)
(* only the notification it has read and found expired, and the live       *)
(* count equals the number of active notifications.                        *)
C36_TickIsAtomic ==
    /\ [][\A i \in NotifSlots : AutoDismissed(i) => Overdue(i)]_vars
    /\ [](notificationCount = Cardinality(ActiveNotifs))

----------------------------------------------------------------------------
(* Claims about coloured text                                              *)

\* the last request gave item lastOp.result a text made of segments
SegmentedAdd == lastOp.op = "appAdd" /\ lastOp.result >= 0

\* the number of bytes of the segments before segment k of the array
RECURSIVE BytesBefore(_, _)
BytesBefore(arr, k) == IF k <= 1 THEN 0 ELSE BytesBefore(arr, k - 1) + Len(arr[k - 1].t)

\* the segment of the array that holds byte p of the concatenated text
OwnerOf(arr, p) ==
    CHOOSE k \in 1..Len(arr) : BytesBefore(arr, k) < p /\ p <= BytesBefore(arr, k) + Len(arr[k].t)

DrawnText(a) == PrintTextWithSegments(a.text, a.textColor, a.textSegments)

ColouredBySegment(arr, drawn) ==
    \A g \in 1..Len(drawn) : drawn[g].color = arr[OwnerOf(arr, drawn[g].at)].c

(* C37: for a text given as an array of (substring, colour) segments and   *)
(* accepted by parseTextFieldWithSegments, printTextWithSegments draws     *)
(* every character of segment i in colour i, also when a segment holds     *)
(* multi-byte or non-printable characters or is empty.                     *)
C37_SegmentColours ==
    SegmentedAdd =>
        ColouredBySegment(lastOp.req.field, DrawnText(apps[lastOp.result]))

-----------------------------------------------------------------------------
(* Claims about the multi-zone layout *)

\* the step rendered an item whose stored zone count is n
ZonedDraw(n) ==
    /\ Drew
    /\ rendered'.kind = "app"
    /\ apps'[rendered'.index].zoneCount = n

ZoneItem == apps'[rendered'.index]

\* the record zone k of the rendered item is taken from (k counted from 0)
ZoneSource(k) ==
    IF k = 0
    THEN [text |-> ZoneItem.text, icon |-> ZoneItem.icon, label |-> ZoneItem.label,
          textColor |-> ZoneItem.textColor]
    ELSE ZoneItem.zones[k]

IsPrefix(s, t) == Len(s) <= Len(t) /\ s = SubSeq(t, 1, Len(s))

\* the zones on the panel are n, each drawn from its own record
ZonesFromRecords(n) ==
    /\ Len(layout'.zones) = n
    /\ \A k \in 0..(n - 1) :
          /\ IsPrefix(layout'.zones[k + 1].text, ZoneSource(k).text)
          /\ layout'.zones[k + 1].text # << >>
          /\ layout'.zones[k + 1].icon = ZoneSource(k).icon
          /\ layout'.zones[k + 1].label = ZoneSource(k).label
          /\ layout'.zones[k + 1].textColor = ZoneSource(k).textColor

Boxes == [k \in 1..Len(layout'.zones) |-> layout'.zones[k].box]

FullRow(b, y) == b.x = 0 /\ b.y = y /\ b.w = 64 /\ b.h = 31

Quadrant(b, x, y) == b.x = x /\ b.y = y /\ b.w = 31 /\ b.h = 31

\* the split of the canvas for n zones
SplitFor(n) ==
    CASE n = 2 -> FullRow(Boxes[1], 0) /\ FullRow(Boxes[2], 33)
      [] n = 3 -> FullRow(Boxes[1], 0) /\ Quadrant(Boxes[2], 0, 33) /\ Quadrant(Boxes[3], 33, 33)
      [] n = 4 -> /\ Quadrant(Boxes[1], 0, 0) /\ Quadrant(Boxes[2], 33, 0)
                  /\ Quadrant(Boxes[3], 0, 33) /\ Quadrant(Boxes[4], 33, 33)

InsideCanvas(b) ==
    /\ b.x >= 0 /\ b.y >= 0 /\ b.w > 0 /\ b.h > 0
    /\ b.x + b.w <= DISPLAY_WIDTH /\ b.y + b.h <= 64

Disjoint(a, b) ==
    \/ a.x + a.w <= b.x \/ b.x + b.w <= a.x
    \/ a.y + a.h <= b.y \/ b.y + b.h <= a.y

ZonesWellPlaced ==
    /\ \A k \in DOMAIN Boxes : InsideCanvas(Boxes[k])
    /\ \A j, k \in DOMAIN Boxes : j # k => Disjoint(Boxes[j], Boxes[k])
    /\ \A k \in DOMAIN Boxes : layout'.zones[k].isFullWidth <=> Boxes[k].w >= 48

ZonesDrawn(n) == ZonesFromRecords(n) /\ SplitFor(n) /\ ZonesWellPlaced

StoredZoneCounts == \A i \in AppSlots : apps[i].active => apps[i].zoneCount \in {0, 2, 3, 4}

\* C38 as stated: every render of an item whose zone count n is 2, 3 or 4
\* draws n zones, zone 0 from the main fields and the others from the zone
\* records, split as two rows, a row over two halves, or four quadrants,
\* inside the canvas, disjoint, full-width exactly from width 48 on; and the
\* zone count of an active item is 0 or 2..4.
C38_AsStated ==
    /\ [][\A n \in 2..4 : ZonedDraw(n) => ZonesDrawn(n)]_vars
    /\ []StoredZoneCounts

\* C38: the same for every item that displayShowApp does not hand to a
\* built-in layout chosen by the item's id (here the weather clock), which
\* it looks at before the zone count.
C38_ZoneLayout ==
    /\ [][\A n \in 2..4 : ZonedDraw(n) /\ ZoneItem.id # WeatherClockId => ZonesDrawn(n)]_vars
    /\ []StoredZoneCounts

\* items of 2, 3 and 4 zones have been stored, and one of four zones, whose
\* texts are wider than a quadrant, is on the panel
C38_Witness ==
    /\ rendered.kind = "app"
    /\ apps[rendered.index].id = IdA
    /\ apps[rendered.index].zoneCount = 4
    /\ Len(layout.zones) = 4
    /\ layout.zones[2].hasIcon
    /\ layout.zones[2].useCompactText
    /\ Len(layout.zones[2].text) < Len(apps[rendered.index].zones[1].text)

-----------------------------------------------------------------------------
(* Claims about the indicators *)

\* this step rendered, and indicator i is in fade mode
FadeDrawn(i) == RenderStep /\ indicators[i].mode = "fade"

FadeP(i) == indicators[i].fadePeriod

FadeE(i) == Elapsed(now, indicatorAnimState[i].cycleStart) % FadeP(i)

\* the triangle wave of period P at elapsed time e, half = P / 2
Triangle(P, e) ==
    IF e < P \div 2 THEN 10 + (245 * e) \div (P \div 2)
    ELSE 10 + (245 * (P - e)) \div (P \div 2)

\* the computation divides by a non-zero half period
FadeDefined(i) == FadeP(i) \div 2 # 0 /\ indicatorDrawn'[i].brightness # DivideByZero

FadeIsTriangle(i) ==
    FadeP(i) \div 2 # 0 => indicatorDrawn'[i].brightness = Triangle(FadeP(i), FadeE(i))

FadeInRange(i) == indicatorDrawn'[i].brightness \in 10..255

\* both this render and the one before fall in the same half of the same
\* fade cycle of indicator i
SameHalf(i) ==
    /\ lastOp.op # "indicatorSet"
    /\ indicatorDrawn[i].lit
    /\ indicatorDrawn[i].elapsed <= FadeE(i)
    /\ (indicatorDrawn[i].elapsed < FadeP(i) \div 2) <=> (FadeE(i) < FadeP(i) \div 2)

FadeMonotone(i) ==
    SameHalf(i) /\ indicatorDrawn'[i].lit =>
        IF FadeE(i) < FadeP(i) \div 2
        THEN indicatorDrawn'[i].brightness >= indicatorDrawn[i].brightness
        ELSE indicatorDrawn'[i].brightness <= indicatorDrawn[i].brightness

\* C39: whenever an indicator in fade mode is drawn, with period P in
\* 1..65535 and e the time elapsed in the cycle, no division by zero takes
\* place, the brightness is 10 + floor(245 * e / half) for e < half = P / 2
\* and 10 + floor(245 * (P - e) / half) otherwise, it lies in 10..255, and
\* it does not fall within the first half period nor rise within the second.
C39_FadeTriangle ==
    [][\A i \in IndicatorSlots :
          FadeDrawn(i) =>
             /\ FadeP(i) \in 1..65535
             /\ FadeDefined(i)
             /\ FadeIsTriangle(i)
             /\ FadeInRange(i)
             /\ FadeMonotone(i)]_vars

====
